---- MODULE Spec2Model ----
(***************************************************************************)
(* The ticket store of src/src/hooks/useTickets.ts (the useTickets hook)   *)
(* as a state machine.  Every asynchronous store operation is cut at its   *)
(* awaits: "<Op>Start" runs the handler up to the gateway call, "Gw<Op>"   *)
(* is the gateway serving the call, "<Op>Done" is the continuation that    *)
(* runs when the gateway's answer is delivered, and "DispatcherReturn" is  *)
(* the continuation after an awaited Notification Dispatcher call.         *)
(*                                                                         *)
(* The session (useAuth) supplies a user and a profile, or neither.        *)
(***************************************************************************)
EXTENDS Integers, Sequences, FiniteSets, TLC

\* ------------------------------------------------------------- bounds
MaxCalls == 2        \* store operations started in one behaviour (the first load included)
MaxTickets == 2      \* tickets the gateway ever creates
MaxChanges == 1      \* changes made to the remote store by other sessions
MaxUpdates == 2      \* updates started in one behaviour of SpecLifecycle
MaxInFlight == 1     \* operations in flight at a time in SpecLifecycle

VARIABLES
  tickets,    \* useState<Ticket[]>: the local collection
  loading,    \* useState(true)
  error,      \* useState<string | null>
  mounted,    \* the mount effects (first load, subscription) have run
  calls,      \* the store operations started so far, in start order; one that has
              \* settled leaves Settled in its place
  remote,     \* the tickets the gateway holds, newest first (wire format)
  nextId,     \* next id the gateway assigns
  now,        \* the clock
  changes,    \* remote changes made by other sessions so far
  pending,    \* change notifications delivered to the subscription, not yet handled
  last,       \* the call that settled last, as it settled
  earlier,    \* the call that settled before it
  user,       \* useAuth().user
  profile,    \* useAuth().profile
  budget,     \* store operations the behaviour may start
  subscription,   \* the session the subscription's callback closes over, and its channel
  channels,       \* the gateway's change subscriptions, in the order they were opened
  tornDown,       \* the component that uses the store has been unmounted
  searchTerm,     \* TicketsPage: useState( searchParams.get( 'search' ) || '' )
  statusFilter,   \* TicketsPage: useState( ... || 'all' )
  priorityFilter, \* TicketsPage: useState( ... || 'all' )
  assignedFilter, \* TicketsPage: useState( ... || 'all' )
  sortBy,         \* TicketsPage: useState( 'created' )
  filteredTickets, \* TicketsPage: the list its last render computed (line 140)
  sortedTickets,  \* TicketsPage: that list as its last render sorted it (line 143)
  counts          \* TicketsPage: the counts its last render computed (line 188)

pageVars == <<searchTerm, statusFilter, priorityFilter, assignedFilter, sortBy,
              filteredTickets, sortedTickets, counts>>
vars == <<tickets, loading, error, mounted, calls, remote, nextId, now, changes, pending, last, earlier,
          user, profile, budget, subscription, channels, tornDown,
          searchTerm, statusFilter, priorityFilter, assignedFilter, sortBy,
          filteredTickets, sortedTickets, counts>>

\* ------------------------------------------------------------- JS values
\* String-valued fields hold a string; Null and Undef stand for null/undefined.
Null == "null"
Undef == "undefined"
\* Time-valued fields: a Date, an ISO-8601 string, null or undefined.
NullT == <<"null">>
UndefT == <<"undefined">>
Date(n) == <<"date", n>>
ISO(n) == <<"iso", n>>

TruthyT(v) == v \notin {NullT, UndefT}
Truthy(s) == s \notin {Null, Undef, ""}

\* new Date(v)
NewDate(v) ==
  IF v[1] = "iso" \/ v[1] = "date" THEN Date(v[2])
  ELSE IF v = NullT THEN Date(0)
  ELSE <<"invalid">>

\* d.toISOString()
toISOString(d) == ISO(d[2])

\* the session (useAuth): user and profile are null when nobody is signed in
NoUser == [id |-> Null]
NoProfile == [role |-> Null]
\* no subscription: the subscription effect returned at line 36, or it was cleaned up
NoSubscription == [user |-> NoUser, profile |-> NoProfile, channel |-> 0]

\* ------------------------------------------------------------- helpers
Ids(s) == [i \in 1..Len(s) |-> s[i].id]
IdSet(s) == {s[i].id : i \in 1..Len(s)}

\* prev.filter( t => t.id !== ticketId )
FilterOut(s, ticketId) == SelectSeq(s, LAMBDA t : t.id # ticketId)


\* ------------------------------------------------------------- records
\* Partial<Ticket>: a field that is not given is undefined.
NoFields ==
  [status |-> Undef, assignedTo |-> Undef, verifiedBy |-> Undef,
   assignedAt |-> UndefT, resolvedAt |-> UndefT, verifiedAt |-> UndefT, dueDate |-> UndefT]

\* One store operation: op, its arguments, where it stands, the gateway's
\* answer, what its caller observes and the notices (toasts) it raised.
\* api is the function of the store's API the caller invoked, uid the user id
\* the operation read from the session, err the message of the error it threw
\* and ret what it returns: the list a read returns, or the one
\* transformedTicket a create or update passes to the dispatcher and returns.
NewCall(op, ticketId, updates, sent) ==
  [seq |-> Len(calls) + 1,
   op |-> op, tid |-> ticketId, updates |-> updates, sent |-> sent,
   pc |-> "sent", ok |-> FALSE, data |-> <<>>,
   out |-> "pending", toasts |-> <<>>, todo |-> <<>>, disp |-> <<>>, dfail |-> FALSE,
   api |-> op, uid |-> user.id, err |-> "", ret |-> <<>>]

\* the place of a call that has settled; also "no call yet" in last and earlier
Settled ==
  [seq |-> 0, op |-> "none", tid |-> 0, updates |-> NoFields, sent |-> NoFields,
   pc |-> "done", ok |-> FALSE, data |-> <<>>,
   out |-> "none", toasts |-> <<>>, todo |-> <<>>, disp |-> <<>>, dfail |-> FALSE,
   api |-> "none", uid |-> Null, err |-> "", ret |-> <<>>]

InFlight == {c \in 1..Len(calls) : calls[c].pc # "done"}
CanCall == mounted /\ Len(calls) < budget

\* ------------------------------------------------------------- gateway
\* createTicket: the full canonical record, with generated id and timestamps.
GwNewTicket(id, userId, fields, t) ==
  [id |-> id, status |-> "open", createdBy |-> userId, assignedTo |-> Null,
   verifiedBy |-> Null, createdAt |-> ISO(t), updatedAt |-> ISO(t),
   assignedAt |-> NullT, resolvedAt |-> NullT, verifiedAt |-> NullT,
   dueDate |-> IF TruthyT(fields.dueDate) THEN ISO(fields.dueDate[2]) ELSE NullT]

\* updateTicket: the fields that were sent are applied as sent; a field that
\* is undefined is not on the wire.
GwApply(r, f, t) ==
  [r EXCEPT
     !.status = IF f.status # Undef THEN f.status ELSE @,
     !.assignedTo = IF f.assignedTo # Undef THEN f.assignedTo ELSE @,
     !.verifiedBy = IF f.verifiedBy # Undef THEN f.verifiedBy ELSE @,
     !.assignedAt = IF f.assignedAt # UndefT THEN f.assignedAt ELSE @,
     !.resolvedAt = IF f.resolvedAt # UndefT THEN f.resolvedAt ELSE @,
     !.verifiedAt = IF f.verifiedAt # UndefT THEN f.verifiedAt ELSE @,
     !.dueDate = IF f.dueDate # UndefT THEN f.dueDate ELSE @,
     !.updatedAt = ISO(t)]

Answer(c, ok, data) ==
  calls' = [calls EXCEPT ![c].pc = "answered", ![c].ok = ok, ![c].data = data]

Sent(c, op) == c \in 1..Len(calls) /\ calls[c].op = op /\ calls[c].pc = "sent"

\* fetchTickets(userId, role)
GwFetch(c) ==
  /\ Sent(c, "load")
  /\ \/ Answer(c, TRUE, remote)
     \/ Answer(c, FALSE, <<>>)
  /\ UNCHANGED <<tickets, loading, error, mounted, remote, nextId, now, changes, pending, last, earlier, user, profile, budget, subscription, channels, tornDown, pageVars>>

\* createTicket(userId, fields)
GwCreate(c) ==
  /\ Sent(c, "create")
  /\ \/ /\ nextId <= MaxTickets
        /\ LET r == GwNewTicket(nextId, calls[c].uid, calls[c].sent, now) IN
             /\ remote' = <<r>> \o remote
             /\ Answer(c, TRUE, <<r>>)
        /\ nextId' = nextId + 1
        /\ now' = now + 1
     \/ /\ Answer(c, FALSE, <<>>)
        /\ UNCHANGED <<remote, nextId, now>>
  /\ UNCHANGED <<tickets, loading, error, mounted, changes, pending, last, earlier, user, profile, budget, subscription, channels, tornDown, pageVars>>

\* updateTicket(id, fields): fails if the ticket does not exist or the write is rejected
GwUpdate(c) ==
  /\ Sent(c, "update")
  /\ \/ \E i \in 1..Len(remote) :
          /\ remote[i].id = calls[c].tid
          /\ LET r == GwApply(remote[i], calls[c].sent, now) IN
               /\ remote' = [remote EXCEPT ![i] = r]
               /\ Answer(c, TRUE, <<r>>)
          /\ now' = now + 1
     \/ /\ Answer(c, FALSE, <<>>)
        /\ UNCHANGED <<remote, now>>
  /\ UNCHANGED <<tickets, loading, error, mounted, nextId, changes, pending, last, earlier, user, profile, budget, subscription, channels, tornDown, pageVars>>

\* deleteTicket(id): fails if not found or the write is rejected
GwDelete(c) ==
  /\ Sent(c, "delete")
  /\ \/ /\ calls[c].tid \in IdSet(remote)
        /\ remote' = FilterOut(remote, calls[c].tid)
        /\ Answer(c, TRUE, <<>>)
     \/ /\ Answer(c, FALSE, <<>>)
        /\ UNCHANGED remote
  /\ UNCHANGED <<tickets, loading, error, mounted, nextId, now, changes, pending, last, earlier, user, profile, budget, subscription, channels, tornDown, pageVars>>

\* addComment / addNote(userId, id, text)
GwRemark(c) ==
  /\ c \in 1..Len(calls) /\ calls[c].op \in {"comment", "note"} /\ calls[c].pc = "sent"
  /\ \E ok \in BOOLEAN : Answer(c, ok, <<>>)
  /\ UNCHANGED <<tickets, loading, error, mounted, remote, nextId, now, changes, pending, last, earlier, user, profile, budget, subscription, channels, tornDown, pageVars>>

\* getTicketActivities / getTicketMedia(id): the ticket's records (none, one,
\* or two with the newer first), or a failure
GwRead(c) ==
  /\ c \in 1..Len(calls) /\ calls[c].op \in {"activities", "media"} /\ calls[c].pc = "sent"
  /\ \/ Answer(c, TRUE, <<>>)
     \/ Answer(c, TRUE, <<[id |-> 1, ticketId |-> calls[c].tid, createdAt |-> ISO(0)]>>)
     \/ Answer(c, TRUE, <<[id |-> 2, ticketId |-> calls[c].tid, createdAt |-> ISO(1)],
                          [id |-> 1, ticketId |-> calls[c].tid, createdAt |-> ISO(0)]>>)
     \/ Answer(c, FALSE, <<>>)
  /\ UNCHANGED <<tickets, loading, error, mounted, remote, nextId, now, changes, pending, last, earlier, user, profile, budget, subscription, channels, tornDown, pageVars>>

\* Another session changes the remote store (creates a ticket or deletes one);
\* the subscription is notified of the change.
RemoteChange ==
  /\ mounted /\ changes < MaxChanges
  /\ \/ /\ nextId <= MaxTickets
        /\ remote' = <<GwNewTicket(nextId, "u2", NoFields, now)>> \o remote
        /\ nextId' = nextId + 1
        /\ now' = now + 1
     \/ /\ remote # <<>>
        /\ remote' = Tail(remote)
        /\ UNCHANGED <<nextId, now>>
  /\ changes' = changes + 1
  /\ pending' = pending + 1
  /\ UNCHANGED <<tickets, loading, error, mounted, calls, last, earlier, user, profile, budget, subscription, channels, tornDown, pageVars>>


\* ------------------------------------------------------------- the store
\* new Ticket( props ): the entity built from the given properties
Ticket(props) == props

\* loadTickets, lines 71-79: database format to frontend format
transformLoad(ticket) ==
  [ticket EXCEPT
     !.createdAt = NewDate(@),
     !.updatedAt = NewDate(@),
     !.assignedAt = IF TruthyT(@) THEN NewDate(@) ELSE UndefT,
     !.resolvedAt = IF TruthyT(@) THEN NewDate(@) ELSE UndefT,
     !.verifiedAt = IF TruthyT(@) THEN NewDate(@) ELSE UndefT,
     !.dueDate = IF TruthyT(@) THEN NewDate(@) ELSE UndefT]

\* createTicket, lines 123-130 (verifiedAt is spread from data as it came)
transformCreate(data) ==
  Ticket([data EXCEPT
     !.createdAt = NewDate(@),
     !.updatedAt = NewDate(@),
     !.assignedAt = IF TruthyT(@) THEN NewDate(@) ELSE UndefT,
     !.resolvedAt = IF TruthyT(@) THEN NewDate(@) ELSE UndefT,
     !.dueDate = IF TruthyT(@) THEN NewDate(@) ELSE UndefT])

\* updateTicket, lines 232-240
transformUpdate(ticketData) ==
  Ticket([ticketData EXCEPT
     !.createdAt = NewDate(@),
     !.updatedAt = NewDate(@),
     !.assignedAt = IF TruthyT(@) THEN NewDate(@) ELSE UndefT,
     !.resolvedAt = IF TruthyT(@) THEN NewDate(@) ELSE UndefT,
     !.verifiedAt = IF TruthyT(@) THEN NewDate(@) ELSE UndefT,
     !.dueDate = IF TruthyT(@) THEN NewDate(@) ELSE UndefT])

\* A faulty variant of dbUpdatesOf: no timestamp is added for a status change
dbUpdatesOfUnstamped(updates, t) ==
  LET iso(v) == IF TruthyT(v) THEN toISOString(v) ELSE v
  IN  [updates EXCEPT !.dueDate = iso(@), !.assignedAt = iso(@),
                      !.resolvedAt = iso(@), !.verifiedAt = iso(@)]

\* A faulty variant of dbUpdatesOf: the timestamp of a status change is always
\* the current time, also when the caller gave one
dbUpdatesOfRestamping(updates, t) ==
  LET d == dbUpdatesOfUnstamped(updates, t)
      d1 == IF updates.status = "assigned"
              THEN [d EXCEPT !.assignedAt = toISOString(Date(t))] ELSE d
      d2 == IF updates.status = "resolved"
              THEN [d1 EXCEPT !.resolvedAt = toISOString(Date(t))] ELSE d1
  IN  IF updates.status = "verified"
        THEN [d2 EXCEPT !.verifiedAt = toISOString(Date(t)), !.verifiedBy = user.id]
        ELSE d2

\* updateTicket, lines 193-214: dates to ISO strings, timestamps for status changes
dbUpdatesOf(updates, t) ==
  LET iso(v) == IF TruthyT(v) THEN toISOString(v) ELSE v
      d0 == [updates EXCEPT !.dueDate = iso(@), !.assignedAt = iso(@),
                            !.resolvedAt = iso(@), !.verifiedAt = iso(@)]
      d1 == IF updates.status = "assigned" /\ ~TruthyT(updates.assignedAt)
              THEN [d0 EXCEPT !.assignedAt = toISOString(Date(t))] ELSE d0
      d2 == IF updates.status = "resolved" /\ ~TruthyT(updates.resolvedAt)
              THEN [d1 EXCEPT !.resolvedAt = toISOString(Date(t))] ELSE d1
  IN  IF updates.status = "verified" /\ ~TruthyT(updates.verifiedAt)
        THEN [d2 EXCEPT !.verifiedAt = toISOString(Date(t)), !.verifiedBy = user.id]
        ELSE d2

\* The caller's promise settles: the call is over.
Settle(c, out, toasts, dfail) ==
  /\ calls' = [calls EXCEPT ![c] = Settled]
  /\ last' = [calls[c] EXCEPT !.pc = "done", !.out = out, !.toasts = @ \o toasts,
                              !.todo = <<>>, !.dfail = dfail]
  /\ earlier' = last

Answered(c, op) == c \in 1..Len(calls) /\ calls[c].op = op /\ calls[c].pc = "answered"

\* The operation ends before its first await, with no gateway call made: it
\* throws err (out = "rejected") or returns (out = "fulfilled").
EndsAtOnce(call, out, err) ==
  /\ calls' = Append(calls, Settled)
  /\ last' = [call EXCEPT !.pc = "done", !.out = out, !.err = err]
  /\ earlier' = last

\* A faulty variant of ReplaceAll, a load that merges: records the fetch did not return are kept
ReplaceAllMerging(data) ==
  [i \in 1..Len(data) |-> transformLoad(data[i])]
  \o SelectSeq(tickets, LAMBDA t : \A i \in 1..Len(data) : data[i].id # t.id)

\* setTickets( transformedTickets ), line 81
ReplaceAll(data) == [i \in 1..Len(data) |-> transformLoad(data[i])]

\* A faulty variant of LoadStart: the collection is emptied while the load is
\* in flight
LoadStartClearing ==
  /\ loading' = TRUE
  /\ error' = Null
  /\ tickets' = <<>>
  /\ calls' = Append(calls, NewCall("load", 0, NoFields, NoFields))
  /\ UNCHANGED <<remote, nextId, now, changes, last, earlier, user, profile, budget, pageVars>>

\* loadTickets up to its await (lines 48-61), as the function of a render in
\* which useAuth gave user u and profile p; it returns at once when there is
\* no user or no profile
loadTicketsOf(u, p) ==
  IF u = NoUser \/ p = NoProfile
    THEN /\ EndsAtOnce(NewCall("load", 0, NoFields, NoFields), "fulfilled", "")
         /\ UNCHANGED <<loading, error>>
    ELSE /\ loading' = TRUE
         /\ error' = Null
         /\ calls' = Append(calls, NewCall("load", 0, NoFields, NoFields))
         /\ UNCHANGED <<last, earlier>>

\* a call of that loadTickets while the session stays as it is
LoadStartOf(u, p) ==
  /\ loadTicketsOf(u, p)
  /\ UNCHANGED <<tickets, remote, nextId, now, changes, user, profile, budget, pageVars>>

\* loadTickets of the current render
LoadStart == LoadStartOf(user, profile)

\* ---- the change subscription
\* The gateway's subscribeToTickets( callback, userId ): a channel is opened
\* for the user id.
subscribeToTickets(chs, userId) == Append(chs, [user |-> userId, open |-> TRUE])

\* subscription.unsubscribe() on channel k: the channel is closed.
unsubscribe(chs, k) == [chs EXCEPT ![k].open = FALSE]

\* The cleanup the subscription effect returned (lines 40-44), run by React
\* before the effect runs again and when the component unmounts; an effect
\* run that returned at line 36 left no cleanup.
cleanup(chs, sub) == IF sub = NoSubscription THEN chs ELSE unsubscribe(chs, sub.channel)

\* A faulty variant of subscriptionEffect: the effect returns no cleanup
subscriptionEffectLeaking(u, p) ==
  IF u = NoUser
    THEN /\ channels' = channels
         /\ subscription' = NoSubscription
    ELSE /\ channels' = subscribeToTickets(channels, u.id)
         /\ subscription' = [user |-> u, profile |-> p, channel |-> Len(channels) + 1]

\* The subscription effect (lines 34-46) runs for the session (u, p) of the
\* render: the cleanup of its earlier run first, then its body.
subscriptionEffect(u, p) ==
  LET closed == cleanup(channels, subscription) IN
    IF u = NoUser
      THEN /\ channels' = closed
           /\ subscription' = NoSubscription
      ELSE /\ channels' = subscribeToTickets(closed, u.id)
           /\ subscription' = [user |-> u, profile |-> p, channel |-> Len(closed) + 1]

\* the mount effects: the first load, or the emptied collection when nobody is
\* signed in (lines 18-31), and the subscription (34-46)
Mount ==
  /\ ~mounted /\ ~tornDown
  /\ mounted' = TRUE
  /\ IF user # NoUser /\ profile # NoProfile
       THEN LoadStart
       ELSE /\ tickets' = <<>>
            /\ loading' = FALSE
            /\ UNCHANGED <<error, calls, remote, nextId, now, changes, last, earlier,
                           user, profile, budget, pageVars>>
  /\ subscriptionEffect(user, profile)
  /\ UNCHANGED <<pending, tornDown>>

\* a caller calls loadTickets
Load ==
  /\ CanCall
  /\ LoadStart
  /\ UNCHANGED <<mounted, pending, subscription, channels, tornDown>>

\* the subscription's callback: ( payload ) => loadTickets(), with the
\* loadTickets of the render in which the subscription effect ran
OnChange ==
  /\ CanCall
  /\ subscription # NoSubscription
  /\ pending > 0
  /\ pending' = pending - 1
  /\ LoadStartOf(subscription.user, subscription.profile)
  /\ UNCHANGED <<mounted, subscription, channels, tornDown>>

\* A faulty variant of LoadDone: a failed fetch is read as an empty result
LoadDoneClearing(c) ==
  /\ Answered(c, "load")
  /\ IF calls[c].ok
       THEN /\ tickets' = ReplaceAll(calls[c].data)
            /\ error' = error
            /\ Settle(c, "fulfilled", <<>>, FALSE)
       ELSE /\ tickets' = <<>>
            /\ error' = "TypeError"
            /\ Settle(c, "fulfilled", <<"Error loading tickets">>, FALSE)
  /\ loading' = FALSE
  /\ UNCHANGED <<mounted, remote, nextId, now, changes, pending, user, profile, budget, subscription, channels, tornDown, pageVars>>

\* A variant of LoadDone that coalesces to the latest: the answer of a load is
\* dropped when a load issued after it has already settled
LoadDoneLatestIssued(c) ==
  /\ Answered(c, "load")
  /\ IF calls[c].ok
       THEN /\ tickets' = IF last.op = "load" /\ last.seq > c
                             THEN tickets ELSE ReplaceAll(calls[c].data)
            /\ error' = error
            /\ Settle(c, "fulfilled", <<>>, FALSE)
       ELSE /\ tickets' = tickets
            /\ error' = "TypeError"
            /\ Settle(c, "fulfilled", <<"Error loading tickets">>, FALSE)
  /\ loading' = FALSE
  /\ UNCHANGED <<mounted, remote, nextId, now, changes, pending, user, profile, budget, subscription, channels, tornDown, pageVars>>

\* loadTickets after its await (lines 63-105).  When the fetch threw, data is
\* undefined and data.map throws a TypeError, which the outer catch handles.
LoadDone(c) ==
  /\ Answered(c, "load")
  /\ IF calls[c].ok
       THEN /\ tickets' = ReplaceAll(calls[c].data)
            /\ error' = error
            /\ Settle(c, "fulfilled", <<>>, FALSE)
       ELSE /\ tickets' = tickets
            /\ error' = "TypeError"
            /\ Settle(c, "fulfilled", <<"Error loading tickets">>, FALSE)
  /\ loading' = FALSE
  /\ UNCHANGED <<mounted, remote, nextId, now, changes, pending, user, profile, budget, subscription, channels, tornDown, pageVars>>


\* ---- createTicket
\* what callers pass: ticket data without or with a due date
CreateInputs == {NoFields, [NoFields EXCEPT !.dueDate = Date(MaxCalls + MaxChanges)]}

\* A faulty variant of Prepend: the created record is put at the end
PrependAtEnd(transformedTicket, prev) == Append(prev, transformedTicket)

\* setTickets( prev => [ transformedTicket, ...prev ] ), line 142
Prepend(transformedTicket, prev) == <<transformedTicket>> \o prev

\* createTicket up to its await (lines 109-119)
CreateTicket(ticketData) ==
  /\ CanCall
  /\ IF user = NoUser
       THEN EndsAtOnce(NewCall("create", 0, ticketData, NoFields),
                       "rejected", "User not authenticated")
       ELSE /\ calls' = Append(calls, NewCall("create", 0, ticketData, ticketData))
            /\ UNCHANGED <<last, earlier>>
  /\ UNCHANGED <<tickets, loading, error, mounted, remote, nextId, now, changes, pending,
                 user, profile, budget, subscription, channels, tornDown, pageVars>>

\* A faulty variant of CreateDone: an optimistic record, built from the
\* caller's data, stays in the collection when the gateway rejected the create
CreateDoneOptimistic(c) ==
  /\ Answered(c, "create")
  /\ IF calls[c].ok
       THEN /\ tickets' = Prepend(transformCreate(calls[c].data[1]), tickets)
            /\ calls' = [calls EXCEPT ![c].pc = "notify", ![c].disp = <<"created">>]
            /\ UNCHANGED <<last, earlier>>
       ELSE /\ tickets' = Prepend(transformCreate(GwNewTicket(0, calls[c].uid, calls[c].sent, now)), tickets)
            /\ Settle(c, "rejected", <<"Failed to create ticket">>, FALSE)
  /\ UNCHANGED <<loading, error, mounted, remote, nextId, now, changes, pending, user, profile, budget, subscription, channels, tornDown, pageVars>>

\* A faulty variant of CreateDone: the dispatcher is told of a create that failed
CreateDoneNotifyingAlways(c) ==
  /\ Answered(c, "create")
  /\ IF calls[c].ok
       THEN /\ tickets' = Prepend(transformCreate(calls[c].data[1]), tickets)
            /\ calls' = [calls EXCEPT ![c].pc = "notify", ![c].disp = <<"created">>,
                                      ![c].ret = <<transformCreate(calls[c].data[1])>>]
       ELSE /\ tickets' = tickets
            /\ calls' = [calls EXCEPT ![c].pc = "notify", ![c].disp = <<"created">>]
  /\ UNCHANGED <<last, earlier>>
  /\ UNCHANGED <<loading, error, mounted, remote, nextId, now, changes, pending, user, profile, budget, subscription, channels, tornDown, pageVars>>

\* createTicket after the gateway's answer (lines 119-148, 164-180)
CreateDone(c) ==
  /\ Answered(c, "create")
  /\ IF calls[c].ok
       THEN /\ tickets' = Prepend(transformCreate(calls[c].data[1]), tickets)
            /\ calls' = [calls EXCEPT ![c].pc = "notify", ![c].disp = <<"created">>,
                                      ![c].ret = <<transformCreate(calls[c].data[1])>>]
            /\ UNCHANGED <<last, earlier>>
       ELSE /\ tickets' = tickets
            /\ Settle(c, "rejected", <<"Failed to create ticket">>, FALSE)
  /\ UNCHANGED <<loading, error, mounted, remote, nextId, now, changes, pending, user, profile, budget, subscription, channels, tornDown, pageVars>>

\* ---- updateTicket, assignTicket, updateTicketStatus
\* A faulty variant of ReplaceById: the updated record is moved to the front
ReplaceByIdToFront(prev, ticketId, transformedTicket) ==
  <<transformedTicket>> \o FilterOut(prev, ticketId)

\* setTickets( prev => prev.map( t => t.id === ticketId ? transformedTicket : t ) ), line 242
ReplaceById(prev, ticketId, transformedTicket) ==
  [i \in 1..Len(prev) |-> IF prev[i].id = ticketId THEN transformedTicket ELSE prev[i]]

\* lines 247-249: the dispatcher calls an update makes, in order
NotificationsOf(updates, transformedTicket) ==
  (IF updates.status = "resolved" THEN <<"resolved">> ELSE <<>>)
  \o (IF Truthy(updates.assignedTo) /\ updates.assignedTo # transformedTicket.createdBy
        THEN <<"assigned">> ELSE <<>>)

\* updateTicket up to its await (lines 186-220), entered through api
UpdateTicketVia(api, ticketId, updates) ==
  /\ CanCall
  /\ IF user = NoUser
       THEN EndsAtOnce([NewCall("update", ticketId, updates, NoFields) EXCEPT !.api = api],
                       "rejected", "User not authenticated")
       ELSE /\ calls' = Append(calls, [NewCall("update", ticketId, updates,
                                               dbUpdatesOf(updates, now))
                                         EXCEPT !.api = api])
            /\ UNCHANGED <<last, earlier>>
  /\ UNCHANGED <<tickets, loading, error, mounted, remote, nextId, now, changes, pending,
                 user, profile, budget, subscription, channels, tornDown, pageVars>>

\* a caller calls updateTicket
UpdateTicket(ticketId, updates) == UpdateTicketVia("updateTicket", ticketId, updates)

\* A faulty variant of AssignTicket: only the assignee is updated
AssignTicketBare(ticketId, assignedTo) ==
  UpdateTicketVia("assignTicket", ticketId, [NoFields EXCEPT !.assignedTo = assignedTo])

\* assignTicket (lines 333-341)
AssignTicket(ticketId, assignedTo) ==
  UpdateTicketVia("assignTicket", ticketId,
    [NoFields EXCEPT !.assignedTo = assignedTo,
                     !.status = IF Truthy(assignedTo) THEN "assigned" ELSE "open",
                     !.assignedAt = IF Truthy(assignedTo) THEN Date(now) ELSE UndefT])

\* updateTicketStatus (lines 463-467)
UpdateTicketStatus(ticketId, status) ==
  UpdateTicketVia("updateTicketStatus", ticketId, [NoFields EXCEPT !.status = status])

\* updateTicket after the gateway's answer (lines 220-249, 266-278)
UpdateDone(c) ==
  /\ Answered(c, "update")
  /\ IF calls[c].ok
       THEN LET transformedTicket == transformUpdate(calls[c].data[1])
                todo == NotificationsOf(calls[c].updates, transformedTicket)
            IN  /\ tickets' = ReplaceById(tickets, calls[c].tid, transformedTicket)
                /\ IF todo = <<>>
                     THEN /\ calls' = [calls EXCEPT ![c] = Settled]
                          /\ last' = [calls[c] EXCEPT !.pc = "done", !.out = "fulfilled",
                                                      !.toasts = @ \o <<"Ticket updated">>,
                                                      !.ret = <<transformedTicket>>]
                          /\ earlier' = last
                     ELSE /\ calls' = [calls EXCEPT ![c].pc = "notify",
                                          ![c].disp = <<Head(todo)>>, ![c].todo = Tail(todo),
                                          ![c].ret = <<transformedTicket>>]
                          /\ UNCHANGED <<last, earlier>>
       ELSE /\ tickets' = tickets
            /\ Settle(c, "rejected", <<"Failed to update ticket">>, FALSE)
  /\ UNCHANGED <<loading, error, mounted, remote, nextId, now, changes, pending, user, profile, budget, subscription, channels, tornDown, pageVars>>

\* A faulty variant of DispatcherReturn: a dispatcher call that throws fails
\* the operation
DispatcherReturnFailing(c) ==
  /\ c \in 1..Len(calls) /\ calls[c].pc = "notify"
  /\ \E ok \in BOOLEAN :
       IF ok /\ calls[c].todo # <<>>
         THEN /\ calls' = [calls EXCEPT ![c].disp = Append(@, Head(calls[c].todo)),
                                        ![c].todo = Tail(@)]
              /\ UNCHANGED <<last, earlier>>
         ELSE IF ok
           THEN Settle(c, "fulfilled",
                       <<IF calls[c].op = "create" THEN "Ticket created" ELSE "Ticket updated">>,
                       FALSE)
           ELSE Settle(c, "rejected",
                       <<IF calls[c].op = "create" THEN "Failed to create ticket"
                                                   ELSE "Failed to update ticket">>,
                       TRUE)
  /\ UNCHANGED <<tickets, loading, error, mounted, remote, nextId, now, changes, pending, user, profile, budget, subscription, channels, tornDown, pageVars>>

\* An awaited Notification Dispatcher call returns or throws (lines 146-162,
\* 245-264): the next call is made, or the confirmation is raised.
DispatcherReturn(c) ==
  /\ c \in 1..Len(calls) /\ calls[c].pc = "notify"
  /\ \E ok \in BOOLEAN :
       IF ok /\ calls[c].todo # <<>>
         THEN /\ calls' = [calls EXCEPT ![c].disp = Append(@, Head(calls[c].todo)),
                                        ![c].todo = Tail(@)]
              /\ UNCHANGED <<last, earlier>>
         ELSE Settle(c, "fulfilled",
                     <<IF calls[c].op = "create" THEN "Ticket created" ELSE "Ticket updated">>,
                     ~ok)
  /\ UNCHANGED <<tickets, loading, error, mounted, remote, nextId, now, changes, pending, user, profile, budget, subscription, channels, tornDown, pageVars>>

\* ---- deleteTicket
\* A faulty variant of DeleteTicket: the session is not looked at
DeleteTicketUnchecked(ticketId) ==
  /\ CanCall
  /\ calls' = Append(calls, NewCall("delete", ticketId, NoFields, NoFields))
  /\ UNCHANGED <<tickets, loading, error, mounted, remote, nextId, now, changes, pending,
                 last, earlier, user, profile, budget, subscription, channels, tornDown, pageVars>>

\* deleteTicket up to its await (lines 284-292)
DeleteTicket(ticketId) ==
  /\ CanCall
  /\ IF user = NoUser
       THEN EndsAtOnce(NewCall("delete", ticketId, NoFields, NoFields),
                       "rejected", "User not authenticated")
       ELSE /\ calls' = Append(calls, NewCall("delete", ticketId, NoFields, NoFields))
            /\ UNCHANGED <<last, earlier>>
  /\ UNCHANGED <<tickets, loading, error, mounted, remote, nextId, now, changes, pending,
                 user, profile, budget, subscription, channels, tornDown, pageVars>>

\* lines 292-300: an error the gateway returned or threw is caught and logged;
\* TRUE when execution goes on to the removal
DeleteProceeds(ok) == TRUE

\* deleteTicket after the gateway's answer (lines 292-309)
DeleteDone(c) ==
  /\ Answered(c, "delete")
  /\ IF DeleteProceeds(calls[c].ok)
       THEN /\ tickets' = FilterOut(tickets, calls[c].tid)
            /\ Settle(c, "fulfilled", <<"Ticket deleted">>, FALSE)
       ELSE /\ tickets' = tickets
            /\ Settle(c, "rejected", <<"Failed to delete ticket">>, FALSE)
  /\ UNCHANGED <<loading, error, mounted, remote, nextId, now, changes, pending, user, profile, budget, subscription, channels, tornDown, pageVars>>

\* ---- addComment, addNote
AddComment(ticketId) ==
  /\ CanCall
  /\ IF user = NoUser
       THEN EndsAtOnce(NewCall("comment", ticketId, NoFields, NoFields),
                       "rejected", "User not authenticated")
       ELSE /\ calls' = Append(calls, NewCall("comment", ticketId, NoFields, NoFields))
            /\ UNCHANGED <<last, earlier>>
  /\ UNCHANGED <<tickets, loading, error, mounted, remote, nextId, now, changes, pending,
                 user, profile, budget, subscription, channels, tornDown, pageVars>>

AddNote(ticketId) ==
  /\ CanCall
  /\ IF user = NoUser
       THEN EndsAtOnce(NewCall("note", ticketId, NoFields, NoFields),
                       "rejected", "User not authenticated")
       ELSE /\ calls' = Append(calls, NewCall("note", ticketId, NoFields, NoFields))
            /\ UNCHANGED <<last, earlier>>
  /\ UNCHANGED <<tickets, loading, error, mounted, remote, nextId, now, changes, pending,
                 user, profile, budget, subscription, channels, tornDown, pageVars>>

\* addComment after the gateway's answer (lines 349-377)
CommentDone(c) ==
  /\ Answered(c, "comment")
  /\ IF calls[c].ok
       THEN Settle(c, "fulfilled", <<"Comment added">>, FALSE)
       ELSE Settle(c, "rejected", <<"Failed to add comment">>, FALSE)
  /\ UNCHANGED <<tickets, loading, error, mounted, remote, nextId, now, changes, pending, user, profile, budget, subscription, channels, tornDown, pageVars>>

\* addNote after the gateway's answer (lines 475-503)
NoteDone(c) ==
  /\ Answered(c, "note")
  /\ IF calls[c].ok
       THEN Settle(c, "fulfilled", <<"Note added">>, FALSE)
       ELSE Settle(c, "rejected", <<"Failed to add note">>, FALSE)
  /\ UNCHANGED <<tickets, loading, error, mounted, remote, nextId, now, changes, pending, user, profile, budget, subscription, channels, tornDown, pageVars>>

\* ---- getTicketActivities, getTicketMedia
\* The read returns: the call is over.
Return(c, ret, toasts) ==
  /\ calls' = [calls EXCEPT ![c] = Settled]
  /\ last' = [calls[c] EXCEPT !.pc = "done", !.out = "fulfilled", !.toasts = @ \o toasts,
                              !.ret = ret]
  /\ earlier' = last

\* data.map( x => ( { ...x, createdAt: new Date( x.createdAt ) } ) ), lines 405-408, 439-442
withDates(data) == [i \in 1..Len(data) |-> [data[i] EXCEPT !.createdAt = NewDate(@)]]

\* getTicketActivities up to its await (lines 383-391)
GetTicketActivities(ticketId) ==
  /\ CanCall
  /\ calls' = Append(calls, NewCall("activities", ticketId, NoFields, NoFields))
  /\ UNCHANGED <<tickets, loading, error, mounted, remote, nextId, now, changes, pending,
                 last, earlier, user, profile, budget, subscription, channels, tornDown, pageVars>>

\* getTicketMedia up to its await (lines 431-435)
GetTicketMedia(ticketId) ==
  /\ CanCall
  /\ calls' = Append(calls, NewCall("media", ticketId, NoFields, NoFields))
  /\ UNCHANGED <<tickets, loading, error, mounted, remote, nextId, now, changes, pending,
                 last, earlier, user, profile, budget, subscription, channels, tornDown, pageVars>>

\* A faulty variant of ActivitiesDone: the gateway's failure is thrown on
ActivitiesDoneThrowing(c) ==
  /\ Answered(c, "activities")
  /\ IF calls[c].ok
       THEN Return(c, withDates(calls[c].data), <<>>)
       ELSE Settle(c, "rejected", <<"Failed to load activities">>, FALSE)
  /\ UNCHANGED <<tickets, loading, error, mounted, remote, nextId, now, changes, pending,
                 user, profile, budget, subscription, channels, tornDown, pageVars>>

\* getTicketActivities after the gateway's answer (lines 391-427).  When the
\* call threw, the inner catch raises the notice, data is undefined, data.map
\* throws and the outer catch raises the notice again.
ActivitiesDone(c) ==
  /\ Answered(c, "activities")
  /\ IF calls[c].ok
       THEN Return(c, withDates(calls[c].data), <<>>)
       ELSE Return(c, <<>>, <<"Failed to load activities", "Failed to load activities">>)
  /\ UNCHANGED <<tickets, loading, error, mounted, remote, nextId, now, changes, pending,
                 user, profile, budget, subscription, channels, tornDown, pageVars>>

\* A faulty variant of MediaDone: a failed read empties the collection
MediaDoneClearing(c) ==
  /\ Answered(c, "media")
  /\ IF calls[c].ok
       THEN /\ Return(c, withDates(calls[c].data), <<>>)
            /\ tickets' = tickets
       ELSE /\ Return(c, <<>>, <<"Failed to load media">>)
            /\ tickets' = <<>>
  /\ UNCHANGED <<loading, error, mounted, remote, nextId, now, changes, pending,
                 user, profile, budget, subscription, channels, tornDown, pageVars>>

\* getTicketMedia after the gateway's answer (lines 435-459)
MediaDone(c) ==
  /\ Answered(c, "media")
  /\ IF calls[c].ok
       THEN Return(c, withDates(calls[c].data), <<>>)
       ELSE Return(c, <<>>, <<"Failed to load media">>)
  /\ UNCHANGED <<tickets, loading, error, mounted, remote, nextId, now, changes, pending,
                 user, profile, budget, subscription, channels, tornDown, pageVars>>

\* ---- getOverdueTickets
\* ticket.dueDate < now: a Date is compared by its instant; anything else
\* converts to NaN and compares false
lessThanDate(v, t) == v[1] = "date" /\ v[2] < t

\* A faulty variant of getOverdueTickets: the status is not looked at
getOverdueTicketsOfAnyStatus(ts, t) ==
  SelectSeq(ts, LAMBDA ticket : TruthyT(ticket.dueDate) /\ lessThanDate(ticket.dueDate, t))

\* getOverdueTickets (lines 544-554), evaluated at time t
getOverdueTickets(ts, t) ==
  SelectSeq(ts, LAMBDA ticket :
    /\ TruthyT(ticket.dueDate)
    /\ lessThanDate(ticket.dueDate, t)
    /\ ticket.status \notin {"resolved", "verified", "closed"})

\* a caller calls getOverdueTickets: it returns at once
GetOverdueTickets ==
  /\ CanCall
  /\ EndsAtOnce([NewCall("overdue", 0, NoFields, NoFields)
                   EXCEPT !.ret = getOverdueTickets(tickets, now)], "fulfilled", "")
  /\ UNCHANGED <<tickets, loading, error, mounted, remote, nextId, now, changes, pending,
                 user, profile, budget, subscription, channels, tornDown, pageVars>>

\* ---- the session's profile arrives
\* useAuth had a user and no profile (lines 63, 131) and now sets the same
\* session's user together with its profile (line 117).  The load effect
\* (deps [ user, profile ], lines 18-31) runs again and loads.  The subscription
\* effect (deps [ user ], lines 34-46) runs again only when the user object is
\* another one than before, which the authentication helper decides: either
\* the subscription keeps the loadTickets of the earlier render, or it is
\* replaced by one with the loadTickets of this render.
ProfileArrives ==
  /\ CanCall
  /\ user # NoUser /\ profile = NoProfile
  /\ \E p \in {[role |-> "admin"]}, sameUserObject \in BOOLEAN :
       /\ profile' = p
       /\ loadTicketsOf(user, p)
       /\ IF sameUserObject THEN UNCHANGED <<subscription, channels>>
                             ELSE subscriptionEffect(user, p)
  /\ UNCHANGED <<tickets, mounted, remote, nextId, now, changes, pending, user, budget,
                 tornDown, pageVars>>

\* ---- the session ends
\* useAuth sets user and profile to null; the effects of lines 18-46 run again:
\* the collection is emptied, loading is cleared, the subscription is dropped.
SessionEnds ==
  /\ mounted
  /\ user # NoUser
  /\ user' = NoUser
  /\ profile' = NoProfile
  /\ tickets' = <<>>
  /\ loading' = FALSE
  /\ pending' = 0
  /\ subscriptionEffect(NoUser, NoProfile)
  /\ UNCHANGED <<error, mounted, calls, remote, nextId, now, changes, last, earlier, budget,
                 tornDown, pageVars>>

\* ---- the session changes
MaxChannels == 2   \* change subscriptions opened in a behaviour

\* who signs in, and the profile read for them (null when reading it failed)
AuthUsers == {[id |-> "u1"], [id |-> "u2"]}
AuthProfiles == {NoProfile, [role |-> "admin"]}

\* useAuth's onAuthStateChange listener with a session: setState( { user:
\* session.user, profile } ) (useAuth.ts lines 117 and 131).  The effect on
\* [ user, profile ] (useTickets.ts 18-31) runs again unless the user object is
\* the one of the earlier render and the profile is null as before: it loads, or
\* empties the collection.  The subscription effect (deps [ user ], 34-46) runs
\* again when the user object is another one.
AuthStateChange ==
  /\ mounted
  /\ \E u \in AuthUsers, p \in AuthProfiles, sameUserObject \in BOOLEAN :
       /\ p # NoProfile => Len(calls) < budget
       /\ sameUserObject => u = user
       /\ sameUserObject \/ Len(channels) < MaxChannels
       /\ user' = u
       /\ profile' = p
       /\ IF p # NoProfile
            THEN /\ loadTicketsOf(u, p)
                 /\ UNCHANGED tickets
            ELSE IF sameUserObject /\ profile = NoProfile
                   THEN UNCHANGED <<tickets, loading, error, calls, last, earlier>>
                   ELSE /\ tickets' = <<>>
                        /\ loading' = FALSE
                        /\ UNCHANGED <<error, calls, last, earlier>>
       /\ IF sameUserObject THEN UNCHANGED <<subscription, channels>>
                             ELSE subscriptionEffect(u, p)
  /\ UNCHANGED <<mounted, remote, nextId, now, changes, pending, budget, tornDown, pageVars>>

\* ---- the store is torn down
\* The component that uses the store unmounts: React runs the cleanup of the
\* subscription effect (lines 40-44).  Nothing calls the store afterwards.
Unmount ==
  /\ mounted
  /\ mounted' = FALSE
  /\ tornDown' = TRUE
  /\ channels' = cleanup(channels, subscription)
  /\ subscription' = NoSubscription
  /\ pending' = 0
  /\ UNCHANGED <<tickets, loading, error, calls, remote, nextId, now, changes, last, earlier,
                 user, profile, budget, pageVars>>

\* ------------------------------------------------------------- the page
\* A string is the sequence of its characters.
\* String.prototype.toLowerCase, on the characters that occur
toLowerCaseChar(ch) ==
  CASE ch = "A" -> "a"
    [] ch = "B" -> "b"
    [] OTHER -> ch

toLowerCase(str) == [i \in 1..Len(str) |-> toLowerCaseChar(str[i])]

\* String.prototype.includes: part occurs in str as a run of characters
includes(str, part) ==
  \E k \in 0..(Len(str) - Len(part)) : SubSeq(str, k + 1, k + Len(part)) = part

\* user?.id and profile?.role
idOf(u) == IF u = NoUser THEN Undef ELSE u.id
roleOf(p) == IF p = NoProfile THEN Undef ELSE p.role

\* lines 46-49
canViewAllTickets(p) == roleOf(p) = "admin" \/ roleOf(p) = "supervisor"

\* A faulty variant of userTickets: every role sees every ticket
userTicketsUnscoped(ts, u, p) == ts

\* getFilteredTickets, lines 103-118: the tickets the role may see
userTickets(ts, u, p) ==
  IF canViewAllTickets(p)
    THEN ts
    ELSE SelectSeq(ts, LAMBDA ticket :
                         ticket.createdBy = idOf(u) \/ ticket.assignedTo = idOf(u))

\* A faulty variant of matchesSearch: the case of the letters matters
matchesSearchCaseSensitive(ticket, term) ==
  \/ includes(ticket.title, term)
  \/ includes(ticket.description, term)
  \/ includes(ticket.location, term)

\* lines 122-124
matchesSearch(ticket, term) ==
  \/ includes(toLowerCase(ticket.title), toLowerCase(term))
  \/ includes(toLowerCase(ticket.description), toLowerCase(term))
  \/ includes(toLowerCase(ticket.location), toLowerCase(term))

\* line 126
matchesStatus(ticket, filter) == filter = "all" \/ ticket.status = filter

\* line 128
matchesPriority(ticket, filter) == filter = "all" \/ ticket.priority = filter

\* lines 130-132
matchesAssigned(ticket, filter) ==
  \/ filter = "all"
  \/ filter = "unassigned" /\ ~Truthy(ticket.assignedTo)
  \/ ticket.assignedTo = filter

\* getFilteredTickets, lines 101-138
getFilteredTickets(ts, u, p, term, status, priority, assigned) ==
  SelectSeq(userTickets(ts, u, p), LAMBDA ticket :
    /\ matchesSearch(ticket, term)
    /\ matchesStatus(ticket, status)
    /\ matchesPriority(ticket, priority)
    /\ matchesAssigned(ticket, assigned))

\* getTicketCounts, lines 171-173: the tickets the role may see
allUserTickets(ts, u, p) ==
  IF canViewAllTickets(p)
    THEN ts
    ELSE SelectSeq(ts, LAMBDA ticket :
                         ticket.createdBy = idOf(u) \/ ticket.assignedTo = idOf(u))

\* A faulty variant of getTicketCounts: the unassigned tickets are counted for
\* every role
getTicketCountsUnassignedForAll(ts, u, p, t) ==
  LET scoped == allUserTickets(ts, u, p) IN
    [all |-> Len(scoped),
     assigned |-> Len(SelectSeq(scoped, LAMBDA x : x.assignedTo = idOf(u))),
     created |-> Len(SelectSeq(scoped, LAMBDA x : x.createdBy = idOf(u))),
     unassigned |-> Len(SelectSeq(scoped, LAMBDA x : ~Truthy(x.assignedTo))),
     overdue |-> Len(SelectSeq(scoped, LAMBDA x :
                   /\ TruthyT(x.dueDate)
                   /\ NewDate(x.dueDate)[2] < t
                   /\ x.status \notin {"resolved", "verified", "closed"}))]

\* getTicketCounts, lines 170-186, evaluated at time t
getTicketCounts(ts, u, p, t) ==
  LET scoped == allUserTickets(ts, u, p) IN
    [all |-> Len(scoped),
     assigned |-> Len(SelectSeq(scoped, LAMBDA x : x.assignedTo = idOf(u))),
     created |-> Len(SelectSeq(scoped, LAMBDA x : x.createdBy = idOf(u))),
     unassigned |-> IF canViewAllTickets(p)
                      THEN Len(SelectSeq(scoped, LAMBDA x : ~Truthy(x.assignedTo)))
                      ELSE 0,
     overdue |-> Len(SelectSeq(scoped, LAMBDA x :
                   /\ TruthyT(x.dueDate)
                   /\ NewDate(x.dueDate)[2] < t
                   /\ x.status \notin {"resolved", "verified", "closed"}))]

\* priorityOrder[ p ] || 0, line 148-149
priorityOrder(p) ==
  CASE p = "critical" -> 4
    [] p = "high" -> 3
    [] p = "medium" -> 2
    [] p = "low" -> 1
    [] OTHER -> 0

\* new Date( v ).getTime() of a date the collection holds
getTime(v) == NewDate(v)[2]

\* A faulty variant of compare: by priority the lowest rank comes first
compareAscending(a, b, by) ==
  CASE by = "priority" -> priorityOrder(a.priority) - priorityOrder(b.priority)
    [] by = "updated" -> getTime(b.updatedAt) - getTime(a.updatedAt)
    [] by = "due_date" ->
         IF ~TruthyT(a.dueDate) /\ ~TruthyT(b.dueDate) THEN 0
         ELSE IF ~TruthyT(a.dueDate) THEN 1
         ELSE IF ~TruthyT(b.dueDate) THEN -1
         ELSE getTime(a.dueDate) - getTime(b.dueDate)
    [] OTHER -> getTime(b.createdAt) - getTime(a.createdAt)

\* A faulty variant of compare: by due date a ticket without one comes first
compareUndatedFirst(a, b, by) ==
  CASE by = "priority" -> priorityOrder(b.priority) - priorityOrder(a.priority)
    [] by = "updated" -> getTime(b.updatedAt) - getTime(a.updatedAt)
    [] by = "due_date" ->
         IF ~TruthyT(a.dueDate) /\ ~TruthyT(b.dueDate) THEN 0
         ELSE IF ~TruthyT(a.dueDate) THEN -1
         ELSE IF ~TruthyT(b.dueDate) THEN 1
         ELSE getTime(a.dueDate) - getTime(b.dueDate)
    [] OTHER -> getTime(b.createdAt) - getTime(a.createdAt)

\* the comparator of lines 143-167: negative when a comes before b
compare(a, b, by) ==
  CASE by = "priority" -> priorityOrder(b.priority) - priorityOrder(a.priority)
    [] by = "updated" -> getTime(b.updatedAt) - getTime(a.updatedAt)
    [] by = "due_date" ->
         IF ~TruthyT(a.dueDate) /\ ~TruthyT(b.dueDate) THEN 0
         ELSE IF ~TruthyT(a.dueDate) THEN 1
         ELSE IF ~TruthyT(b.dueDate) THEN -1
         ELSE getTime(a.dueDate) - getTime(b.dueDate)
    [] OTHER -> getTime(b.createdAt) - getTime(a.createdAt)

\* Array.prototype.sort is stable: x goes behind the elements that do not
\* come after it
insertSorted(sorted, x, by) ==
  LET k == Cardinality({i \in 1..Len(sorted) : compare(sorted[i], x, by) <= 0})
  IN  SubSeq(sorted, 1, k) \o <<x>> \o SubSeq(sorted, k + 1, Len(sorted))

RECURSIVE sortFirst(_, _, _)
\* the first n elements of list, sorted
sortFirst(list, n, by) ==
  IF n = 0 THEN <<>> ELSE insertSorted(sortFirst(list, n - 1, by), list[n], by)

\* A faulty variant of sort: the list is left in the order it has
sortLeavingOrder(list, by) == list

\* [ ...list ].sort( ( a, b ) => ... ), lines 143-167
sort(list, by) == sortFirst(list, Len(list), by)

\* A faulty variant of Rendered: the collection itself is sorted, and listed
\* from then on in that order
RenderedSortingInPlace(ts) ==
  /\ tickets' = sort(ts, sortBy')
  /\ filteredTickets' = getFilteredTickets(tickets', user', profile', searchTerm',
                                           statusFilter', priorityFilter', assignedFilter')
  /\ sortedTickets' = sort(filteredTickets', sortBy')
  /\ counts' = getTicketCounts(tickets', user', profile', now')

\* The page renders with the collection ts that useTickets gives it and the
\* state the step leaves (lines 140, 143, 188): filter builds a new array, sort
\* works on a copy, and the collection is left as it was given.
Rendered(ts) ==
  /\ tickets' = ts
  /\ filteredTickets' = getFilteredTickets(ts, user', profile', searchTerm',
                                           statusFilter', priorityFilter', assignedFilter')
  /\ sortedTickets' = sort(filteredTickets', sortBy')
  /\ counts' = getTicketCounts(ts, user', profile', now')

\* the sort select, line 363
SetSortBy(value) ==
  /\ sortBy' = value
  /\ UNCHANGED <<loading, error, mounted, calls, remote, nextId, now, changes, pending,
                 last, earlier, user, profile, budget, subscription, channels, tornDown,
                 searchTerm, statusFilter, priorityFilter, assignedFilter>>
  /\ Rendered(tickets)

\* the search box, line 312
SetSearchTerm(value) ==
  /\ searchTerm' = value
  /\ UNCHANGED <<loading, error, mounted, calls, remote, nextId, now, changes, pending,
                 last, earlier, user, profile, budget, subscription, channels, tornDown,
                 statusFilter, priorityFilter, assignedFilter, sortBy>>
  /\ Rendered(tickets)

\* the status select, line 318
SetStatusFilter(value) ==
  /\ statusFilter' = value
  /\ UNCHANGED <<loading, error, mounted, calls, remote, nextId, now, changes, pending,
                 last, earlier, user, profile, budget, subscription, channels, tornDown,
                 searchTerm, priorityFilter, assignedFilter, sortBy>>
  /\ Rendered(tickets)

\* the priority select, line 333
SetPriorityFilter(value) ==
  /\ priorityFilter' = value
  /\ UNCHANGED <<loading, error, mounted, calls, remote, nextId, now, changes, pending,
                 last, earlier, user, profile, budget, subscription, channels, tornDown,
                 searchTerm, statusFilter, assignedFilter, sortBy>>
  /\ Rendered(tickets)

\* the assignee select, line 347
SetAssignedFilter(value) ==
  /\ assignedFilter' = value
  /\ UNCHANGED <<loading, error, mounted, calls, remote, nextId, now, changes, pending,
                 last, earlier, user, profile, budget, subscription, channels, tornDown,
                 searchTerm, statusFilter, priorityFilter, sortBy>>
  /\ Rendered(tickets)

\* useTickets hands the page another collection (line 36)
TicketsChange(ts) ==
  /\ UNCHANGED <<loading, error, mounted, calls, remote, nextId, now, changes, pending,
                 last, earlier, user, profile, budget, subscription, channels, tornDown,
                 searchTerm, statusFilter, priorityFilter, assignedFilter, sortBy>>
  /\ Rendered(ts)

\* ------------------------------------------------------------- specification
\* TicketsPage as it is first rendered with no search parameters (lines 40-44)
\* and an empty collection; a search term is the sequence of its characters
PageInit ==
  /\ searchTerm = <<>>
  /\ statusFilter = "all"
  /\ priorityFilter = "all"
  /\ assignedFilter = "all"
  /\ sortBy = "created"
  /\ filteredTickets = <<>>
  /\ sortedTickets = <<>>
  /\ counts = [all |-> 0, assigned |-> 0, created |-> 0, unassigned |-> 0, overdue |-> 0]

\* callers pass the id of a ticket the collection shows
TicketIds == IdSet(tickets)
AssigneeInputs == {"eng1", Null}
StatusInputs == {"resolved"}

Init ==
  /\ tickets = <<>>
  /\ loading = TRUE
  /\ error = Null
  /\ mounted = FALSE
  /\ calls = <<>>
  /\ \/ remote = <<>> /\ nextId = 1
     \/ remote = <<GwNewTicket(1, "u2", NoFields, 0)>> /\ nextId = 2
  /\ now = 1
  /\ changes = 0
  /\ pending = 0
  /\ last = Settled
  /\ earlier = Settled
  /\ user = [id |-> "u1"]
  /\ profile = [role |-> "admin"]
  /\ budget = MaxCalls
  /\ subscription = NoSubscription
  /\ channels = <<>>
  /\ tornDown = FALSE
  /\ PageInit

Next ==
  \/ Mount
  \/ Load
  \/ OnChange
  \/ \E ticketData \in CreateInputs : CreateTicket(ticketData)
  \/ \E ticketId \in TicketIds, a \in AssigneeInputs : AssignTicket(ticketId, a)
  \/ \E ticketId \in TicketIds, s \in StatusInputs : UpdateTicketStatus(ticketId, s)
  \/ \E ticketId \in TicketIds : DeleteTicket(ticketId)
  \/ \E ticketId \in TicketIds : AddComment(ticketId)
  \/ \E ticketId \in TicketIds : AddNote(ticketId)
  \/ \E c \in 1..Len(calls) : GwFetch(c)
  \/ \E c \in 1..Len(calls) : GwCreate(c)
  \/ \E c \in 1..Len(calls) : GwUpdate(c)
  \/ \E c \in 1..Len(calls) : GwDelete(c)
  \/ \E c \in 1..Len(calls) : GwRemark(c)
  \/ \E c \in 1..Len(calls) : LoadDone(c)
  \/ \E c \in 1..Len(calls) : CreateDone(c)
  \/ \E c \in 1..Len(calls) : UpdateDone(c)
  \/ \E c \in 1..Len(calls) : DispatcherReturn(c)
  \/ \E c \in 1..Len(calls) : DeleteDone(c)
  \/ \E c \in 1..Len(calls) : CommentDone(c)
  \/ \E c \in 1..Len(calls) : NoteDone(c)
  \/ RemoteChange

Spec == Init /\ [][Next]_vars

\* ---- with and without a session
\* The store is mounted with or without a signed-in user, and a session may
\* end; callers use the whole API, naming the ticket they have open, and
\* start an operation while fewer than MaxInFlight are in flight.
SessionIds == {1}
CallerReady == Cardinality(InFlight) < MaxInFlight

InitSession ==
  /\ tickets = <<>>
  /\ loading = TRUE
  /\ error = Null
  /\ mounted = FALSE
  /\ calls = <<>>
  /\ remote = <<GwNewTicket(1, "u2", NoFields, 0)>>
  /\ nextId = 2
  /\ now = 1
  /\ changes = 0
  /\ pending = 0
  /\ last = Settled
  /\ earlier = Settled
  /\ \/ user = NoUser /\ profile = NoProfile
     \/ user = [id |-> "u1"] /\ profile \in {NoProfile, [role |-> "admin"]}
  /\ budget = MaxCalls
  /\ subscription = NoSubscription
  /\ channels = <<>>
  /\ tornDown = FALSE
  /\ PageInit

NextSession ==
  \/ Mount
  \/ SessionEnds
  \/ CallerReady /\ Load
  \/ \E ticketData \in CreateInputs : CallerReady /\ CreateTicket(ticketData)
  \/ \E ticketId \in SessionIds, updates \in {[NoFields EXCEPT !.status = "in_progress"]} :
        CallerReady /\ UpdateTicket(ticketId, updates)
  \/ \E ticketId \in SessionIds, a \in AssigneeInputs :
        CallerReady /\ AssignTicket(ticketId, a)
  \/ \E ticketId \in SessionIds, s \in StatusInputs :
        CallerReady /\ UpdateTicketStatus(ticketId, s)
  \/ \E ticketId \in SessionIds : CallerReady /\ DeleteTicket(ticketId)
  \/ \E ticketId \in SessionIds : CallerReady /\ AddComment(ticketId)
  \/ \E ticketId \in SessionIds : CallerReady /\ AddNote(ticketId)
  \/ \E ticketId \in SessionIds : CallerReady /\ GetTicketActivities(ticketId)
  \/ \E ticketId \in SessionIds : CallerReady /\ GetTicketMedia(ticketId)
  \/ \E c \in 1..Len(calls) : GwFetch(c)
  \/ \E c \in 1..Len(calls) : GwCreate(c)
  \/ \E c \in 1..Len(calls) : GwUpdate(c)
  \/ \E c \in 1..Len(calls) : GwDelete(c)
  \/ \E c \in 1..Len(calls) : GwRemark(c)
  \/ \E c \in 1..Len(calls) : GwRead(c)
  \/ \E c \in 1..Len(calls) : LoadDone(c)
  \/ \E c \in 1..Len(calls) : CreateDone(c)
  \/ \E c \in 1..Len(calls) : UpdateDone(c)
  \/ \E c \in 1..Len(calls) : DispatcherReturn(c)
  \/ \E c \in 1..Len(calls) : DeleteDone(c)
  \/ \E c \in 1..Len(calls) : CommentDone(c)
  \/ \E c \in 1..Len(calls) : NoteDone(c)
  \/ \E c \in 1..Len(calls) : ActivitiesDone(c)
  \/ \E c \in 1..Len(calls) : MediaDone(c)

SpecSession == InitSession /\ [][NextSession]_vars

\* ---- the Notification Dispatcher
\* One ticket, created by u2, exists when the store is mounted; callers create
\* a ticket, resolve and assign the existing one (to somebody else, to its
\* creator, to nobody), one operation after the other.
DispatchInputs ==
  {[NoFields EXCEPT !.status = s, !.assignedTo = a] :
     s \in {Undef, "resolved"}, a \in {Undef, "eng1"}} \ {NoFields}

DispatchAssignees == {"u2", Null}

InitDispatch ==
  /\ tickets = <<>>
  /\ loading = TRUE
  /\ error = Null
  /\ mounted = FALSE
  /\ calls = <<>>
  /\ remote = <<GwNewTicket(1, "u2", NoFields, 0)>>
  /\ nextId = 2
  /\ now = 1
  /\ changes = 0
  /\ pending = 0
  /\ last = Settled
  /\ earlier = Settled
  /\ user = [id |-> "u1"]
  /\ profile = [role |-> "admin"]
  /\ budget = 1 + MaxUpdates
  /\ subscription = NoSubscription
  /\ channels = <<>>
  /\ tornDown = FALSE
  /\ PageInit

NextDispatch ==
  \/ Mount
  \/ CallerReady /\ CreateTicket(NoFields)
  \/ \E ticketId \in SessionIds, updates \in DispatchInputs :
        CallerReady /\ UpdateTicket(ticketId, updates)
  \/ \E ticketId \in SessionIds, a \in DispatchAssignees :
        CallerReady /\ AssignTicket(ticketId, a)
  \/ \E c \in 1..Len(calls) : GwFetch(c)
  \/ \E c \in 1..Len(calls) : GwCreate(c)
  \/ \E c \in 1..Len(calls) : GwUpdate(c)
  \/ \E c \in 1..Len(calls) : LoadDone(c)
  \/ \E c \in 1..Len(calls) : CreateDone(c)
  \/ \E c \in 1..Len(calls) : UpdateDone(c)
  \/ \E c \in 1..Len(calls) : DispatcherReturn(c)

SpecDispatch == InitDispatch /\ [][NextDispatch]_vars

\* The gateway answers every call and the answer is delivered to the waiting
\* operation; nothing makes a dispatcher call complete.
SpecDispatchFair ==
  /\ SpecDispatch
  /\ WF_vars(\E c \in 1..Len(calls) : GwFetch(c))
  /\ WF_vars(\E c \in 1..Len(calls) : GwCreate(c))
  /\ WF_vars(\E c \in 1..Len(calls) : GwUpdate(c))
  /\ WF_vars(\E c \in 1..Len(calls) : LoadDone(c))
  /\ WF_vars(\E c \in 1..Len(calls) : CreateDone(c))
  /\ WF_vars(\E c \in 1..Len(calls) : UpdateDone(c))

\* ---- live updates
\* A user is signed in, with or without a profile yet; other sessions change
\* the remote store, the subscription delivers the notifications.
InitLive ==
  /\ tickets = <<>>
  /\ loading = TRUE
  /\ error = Null
  /\ mounted = FALSE
  /\ calls = <<>>
  /\ remote = <<GwNewTicket(1, "u2", NoFields, 0)>>
  /\ nextId = 2
  /\ now = 1
  /\ changes = 0
  /\ pending = 0
  /\ last = Settled
  /\ earlier = Settled
  /\ user = [id |-> "u1"]
  /\ profile \in {NoProfile, [role |-> "admin"]}
  /\ budget = 1 + MaxCalls
  /\ subscription = NoSubscription
  /\ channels = <<>>
  /\ tornDown = FALSE
  /\ PageInit

NextLive ==
  \/ Mount
  \/ ProfileArrives
  \/ SessionEnds
  \/ RemoteChange
  \/ OnChange
  \/ \E c \in 1..Len(calls) : GwFetch(c)
  \/ \E c \in 1..Len(calls) : LoadDone(c)

SpecLive == InitLive /\ [][NextLive]_vars

\* ---- the subscription over sessions
\* The store is mounted with or without a signed-in user; users sign in and
\* out, the loads their sessions start (two at most) are answered, and the
\* store is torn down.
InitSubscription ==
  /\ tickets = <<>>
  /\ loading = TRUE
  /\ error = Null
  /\ mounted = FALSE
  /\ calls = <<>>
  /\ remote = <<GwNewTicket(1, "u2", NoFields, 0)>>
  /\ nextId = 2
  /\ now = 1
  /\ changes = 0
  /\ pending = 0
  /\ last = Settled
  /\ earlier = Settled
  /\ \/ user = NoUser /\ profile = NoProfile
     \/ user \in AuthUsers /\ profile \in AuthProfiles
  /\ budget = 2
  /\ subscription = NoSubscription
  /\ channels = <<>>
  /\ tornDown = FALSE
  /\ PageInit

NextSubscription ==
  \/ Mount
  \/ AuthStateChange
  \/ SessionEnds
  \/ Unmount
  \/ \E c \in 1..Len(calls) : GwFetch(c)
  \/ \E c \in 1..Len(calls) : LoadDone(c)

SpecSubscription == InitSubscription /\ [][NextSubscription]_vars

\* React unmounts the component that uses the store when its page is left or
\* closed: a mounted store is eventually torn down.
SpecSubscriptionFair == SpecSubscription /\ WF_vars(Unmount)

\* ---- the page's view
MaxViewTickets == 2   \* tickets in a collection the page is given

\* tickets as the page gets them: texts, priority, status, creator, assignee,
\* due date
ViewTicket(id, title, description, location, priority, status, createdBy, assignedTo, dueDate) ==
  [id |-> id, title |-> title, description |-> description, location |-> location,
   priority |-> priority, status |-> status, createdBy |-> createdBy,
   assignedTo |-> assignedTo, dueDate |-> dueDate,
   createdAt |-> Date(0), updatedAt |-> Date(0)]

ViewCatalogue ==
  {ViewTicket(1, <<"A", "b">>, <<"b">>, <<"b">>, "high", "open", "u1", Null, UndefT),
   ViewTicket(2, <<"b">>, <<"b", "A">>, <<"b">>, "low", "resolved", "u2", "u1", Date(0)),
   ViewTicket(3, <<"b">>, <<"b">>, <<"B", "a">>, "critical", "open", "u2", "eng1", Date(0)),
   ViewTicket(5, <<"A">>, <<"b">>, <<"b">>, "low", "closed", "u2", Undef, Date(0)),
   ViewTicket(6, <<"a", "b">>, <<"b">>, <<"b">>, "high", "open", "u1", "u1", Date(5))}

\* the collections: up to MaxViewTickets different tickets, in any order
ViewCollections ==
  {ts \in UNION {[1..n -> ViewCatalogue] : n \in 0..MaxViewTickets} :
     \A i, j \in 1..Len(ts) : ts[i].id = ts[j].id => i = j}

SearchInputs == {<<>>, <<"a">>, <<"A", "B">>}
StatusFilterInputs == {"all", "open"}
PriorityFilterInputs == {"all", "high"}
AssignedFilterInputs == {"all", "unassigned", "u1"}

\* The page is rendered for a session (nobody, a user without a profile, or a
\* user in one of the roles); the collection and the filters change.
InitView ==
  /\ tickets = <<>>
  /\ loading = FALSE
  /\ error = Null
  /\ mounted = TRUE
  /\ calls = <<>>
  /\ remote = <<>>
  /\ nextId = 1
  /\ now = 1
  /\ changes = 0
  /\ pending = 0
  /\ last = Settled
  /\ earlier = Settled
  /\ \/ user = NoUser /\ profile = NoProfile
     \/ /\ user = [id |-> "u1"]
        /\ profile \in {NoProfile, [role |-> "admin"], [role |-> "supervisor"],
                        [role |-> "field_engineer"]}
  /\ budget = 0
  /\ subscription = NoSubscription
  /\ channels = <<>>
  /\ tornDown = FALSE
  /\ PageInit

NextView ==
  \/ \E ts \in ViewCollections : TicketsChange(ts)
  \/ \E value \in SearchInputs : SetSearchTerm(value)
  \/ \E value \in StatusFilterInputs : SetStatusFilter(value)
  \/ \E value \in PriorityFilterInputs : SetPriorityFilter(value)
  \/ \E value \in AssignedFilterInputs : SetAssignedFilter(value)

SpecView == InitView /\ [][NextView]_vars

\* ---- the page's sort orders
MaxSortTickets == 3   \* tickets in a collection the page sorts

\* tickets that differ in what the sort orders read: priority, due date,
\* creation and update time
SortTicket(id, priority, dueDate, createdAt, updatedAt) ==
  [ViewTicket(id, <<"a">>, <<"a">>, <<"a">>, priority, "open", "u1", Null, dueDate)
     EXCEPT !.createdAt = Date(createdAt), !.updatedAt = Date(updatedAt)]

\* two tickets of priority high, one of none; two with no due date, two due at
\* the same time; two created and two updated at the same time
SortCatalogue ==
  {SortTicket(1, "low", UndefT, 1, 5),
   SortTicket(2, "critical", Date(4), 2, 4),
   SortTicket(3, "high", Date(2), 3, 3),
   SortTicket(4, "high", UndefT, 4, 3),
   SortTicket(5, Undef, Date(2), 5, 1),
   SortTicket(6, "medium", Date(3), 3, 2)}

SortCollections ==
  {ts \in UNION {[1..n -> SortCatalogue] : n \in 0..MaxSortTickets} :
     \A i, j \in 1..Len(ts) : ts[i].id = ts[j].id => i = j}

SortByInputs == {"created", "updated", "priority", "due_date"}

InitSort ==
  /\ tickets = <<>>
  /\ loading = FALSE
  /\ error = Null
  /\ mounted = TRUE
  /\ calls = <<>>
  /\ remote = <<>>
  /\ nextId = 1
  /\ now = 1
  /\ changes = 0
  /\ pending = 0
  /\ last = Settled
  /\ earlier = Settled
  /\ user = [id |-> "u1"]
  /\ profile = [role |-> "field_engineer"]
  /\ budget = 0
  /\ subscription = NoSubscription
  /\ channels = <<>>
  /\ tornDown = FALSE
  /\ PageInit

NextSort ==
  \/ \E ts \in SortCollections : TicketsChange(ts)
  \/ \E value \in SortByInputs : SetSortBy(value)

SpecSort == InitSort /\ [][NextSort]_vars

\* ---- overdue tickets
\* The page shows its counts and a caller asks the store for the overdue
\* tickets, before, between and after the due dates of the catalogue.
ClockInputs == {0, 1, 6}

InitOverdue ==
  /\ tickets = <<>>
  /\ loading = FALSE
  /\ error = Null
  /\ mounted = TRUE
  /\ calls = <<>>
  /\ remote = <<>>
  /\ nextId = 1
  /\ now \in ClockInputs
  /\ changes = 0
  /\ pending = 0
  /\ last = Settled
  /\ earlier = Settled
  /\ user = [id |-> "u1"]
  /\ profile \in {NoProfile, [role |-> "admin"], [role |-> "field_engineer"]}
  /\ budget = 1
  /\ subscription = NoSubscription
  /\ channels = <<>>
  /\ tornDown = FALSE
  /\ PageInit

NextOverdue ==
  \/ \E ts \in ViewCollections : TicketsChange(ts)
  \/ GetOverdueTickets

SpecOverdue == InitOverdue /\ [][NextOverdue]_vars

\* ---- the fields an update sends
\* Callers call updateTicket on the ticket the gateway holds with any status
\* or none, giving or not giving each of the three timestamps.
StampStatusInputs ==
  {Undef, "open", "assigned", "in_progress", "resolved", "verified", "closed"}
StampInputs ==
  {[NoFields EXCEPT !.status = s, !.assignedAt = a, !.resolvedAt = r, !.verifiedAt = v] :
     s \in StampStatusInputs, a \in {UndefT, Date(0)}, r \in {UndefT, Date(0)},
     v \in {UndefT, Date(0)}}

InitStamp ==
  /\ tickets = <<>>
  /\ loading = TRUE
  /\ error = Null
  /\ mounted = FALSE
  /\ calls = <<>>
  /\ remote = <<GwNewTicket(1, "u2", NoFields, 0)>>
  /\ nextId = 2
  /\ now = 1
  /\ changes = 0
  /\ pending = 0
  /\ last = Settled
  /\ earlier = Settled
  /\ user = [id |-> "u1"]
  /\ profile = [role |-> "admin"]
  /\ budget = MaxCalls
  /\ subscription = NoSubscription
  /\ channels = <<>>
  /\ tornDown = FALSE
  /\ PageInit

NextStamp ==
  \/ Mount
  \/ \E ticketId \in SessionIds, updates \in StampInputs :
        CallerReady /\ UpdateTicket(ticketId, updates)
  \/ \E c \in 1..Len(calls) : GwFetch(c)
  \/ \E c \in 1..Len(calls) : GwUpdate(c)
  \/ \E c \in 1..Len(calls) : LoadDone(c)
  \/ \E c \in 1..Len(calls) : UpdateDone(c)
  \/ \E c \in 1..Len(calls) : DispatcherReturn(c)

SpecStamp == InitStamp /\ [][NextStamp]_vars

\* ---- the life of a ticket: updates one after another and side by side
\* Two tickets exist when the store is mounted; callers assign, unassign and
\* set the status of the older one (whether or not the collection shows it),
\* starting an operation while fewer than MaxInFlight are in flight.
LifecycleIds == {1}
LifecycleStatusInputs == {"open", "resolved", "verified", "closed"}

InitLifecycle ==
  /\ tickets = <<>>
  /\ loading = TRUE
  /\ error = Null
  /\ mounted = FALSE
  /\ calls = <<>>
  /\ remote = <<GwNewTicket(2, "u1", NoFields, 0), GwNewTicket(1, "u2", NoFields, 0)>>
  /\ nextId = 3
  /\ now = 1
  /\ changes = 0
  /\ pending = 0
  /\ last = Settled
  /\ earlier = Settled
  /\ user = [id |-> "u1"]
  /\ profile = [role |-> "admin"]
  /\ budget = 1 + MaxUpdates
  /\ subscription = NoSubscription
  /\ channels = <<>>
  /\ tornDown = FALSE
  /\ PageInit

NextLifecycle ==
  \/ Mount
  \/ \E ticketId \in LifecycleIds, a \in AssigneeInputs :
        CallerReady /\ AssignTicket(ticketId, a)
  \/ \E ticketId \in LifecycleIds, s \in LifecycleStatusInputs :
        CallerReady /\ UpdateTicketStatus(ticketId, s)
  \/ \E c \in 1..Len(calls) : GwFetch(c)
  \/ \E c \in 1..Len(calls) : GwUpdate(c)
  \/ \E c \in 1..Len(calls) : LoadDone(c)
  \/ \E c \in 1..Len(calls) : UpdateDone(c)
  \/ \E c \in 1..Len(calls) : DispatcherReturn(c)

SpecLifecycle == InitLifecycle /\ [][NextLifecycle]_vars


\* ------------------------------------------------------------- properties
\* the step in which the continuation of call c runs on the gateway's answer
Continues(c, op) ==
  /\ c \in 1..Len(calls)
  /\ calls[c].op = op
  /\ calls[c].pc = "answered"
  /\ calls'[c].pc # "answered"

\* the instant a time-valued field denotes (-1: none)
Instant(v) == IF v[1] \in {"iso", "date"} THEN v[2] ELSE -1

\* a local record shows what the gateway's record says
Corresponds(t, raw) ==
  /\ t.id = raw.id /\ t.status = raw.status
  /\ t.createdBy = raw.createdBy /\ t.assignedTo = raw.assignedTo
  /\ t.createdAt[1] = "date" /\ t.updatedAt[1] = "date"
  /\ Instant(t.createdAt) = Instant(raw.createdAt)
  /\ Instant(t.updatedAt) = Instant(raw.updatedAt)
  /\ Instant(t.assignedAt) = Instant(raw.assignedAt)
  /\ Instant(t.resolvedAt) = Instant(raw.resolvedAt)
  /\ Instant(t.verifiedAt) = Instant(raw.verifiedAt)
  /\ Instant(t.dueDate) = Instant(raw.dueDate)

WriteOps == {"create", "update", "delete", "comment", "note"}

Confirmation(op) ==
  CASE op = "create" -> "Ticket created"
    [] op = "update" -> "Ticket updated"
    [] op = "delete" -> "Ticket deleted"
    [] op = "comment" -> "Comment added"
    [] op = "note" -> "Note added"

FailureNotice(op) ==
  CASE op = "create" -> "Failed to create ticket"
    [] op = "update" -> "Failed to update ticket"
    [] op = "delete" -> "Failed to delete ticket"
    [] op = "comment" -> "Failed to add comment"
    [] op = "note" -> "Failed to add note"

Raised(call) == {call.toasts[i] : i \in 1..Len(call.toasts)}

\* the call raised no failure notice
FailureNoticeFree(call) ==
  Raised(call) \cap {"Error loading tickets", "Failed to create ticket",
                     "Failed to update ticket", "Failed to delete ticket",
                     "Failed to add comment", "Failed to add note"} = {}

\* no gateway call in flight and every delivered change notification handled
Quiescent == mounted /\ InFlight = {} /\ pending = 0

\* C1: delete(ticketId) removes the record from the local collection only
\* when the gateway's deleteTicket call completed without error; when the
\* gateway call fails the local collection is unchanged.
C1_DeleteOnlyWhenConfirmed ==
  [][\A c \in 1..Len(calls) :
       (Continues(c, "delete") /\ ~calls[c].ok) => tickets' = tickets]_vars

\* C2: for every write operation (create, update, delete, addComment,
\* addNote): a failed gateway call rejects the caller's promise and raises the
\* failure notice of that action and no confirmation; a successful one raises
\* the confirmation of that action and no failure notice.
C2_WriteNotices ==
  last.op \in WriteOps =>
    IF last.ok
      THEN /\ Confirmation(last.op) \in Raised(last)
           /\ FailureNotice(last.op) \notin Raised(last)
      ELSE /\ last.out = "rejected"
           /\ FailureNotice(last.op) \in Raised(last)
           /\ Confirmation(last.op) \notin Raised(last)

\* C3: a create or an update whose gateway call fails leaves the local
\* collection exactly as it was and rejects the caller's promise; a create or
\* update changes the collection only in the step that handles a successful
\* answer (no optimistic record is ever visible).
C3_FailedWriteLeavesCollection ==
  [][/\ \A c \in 1..Len(calls) :
          ((Continues(c, "create") \/ Continues(c, "update")) /\ ~calls[c].ok)
            => /\ tickets' = tickets
               /\ last'.seq = c /\ last'.out = "rejected"
     /\ tickets' # tickets =>
          \E c \in 1..Len(calls) :
            \/ Continues(c, "load") \/ Continues(c, "delete")
            \/ ((Continues(c, "create") \/ Continues(c, "update")) /\ calls[c].ok)
    ]_vars

C3_Witness ==
  /\ last.op = "create" /\ ~last.ok /\ last.out = "rejected"
  /\ tickets # <<>>

\* C4: when load's gateway fetch fails, the local collection is left
\* unchanged, the error state becomes non-null, a failure notice is raised,
\* the loading flag returns to false, and load itself does not reject.
C4_FailedLoad ==
  [][\A c \in 1..Len(calls) :
       (Continues(c, "load") /\ ~calls[c].ok)
         => /\ tickets' = tickets
            /\ error' # Null
            /\ loading' = FALSE
            /\ last'.seq = c /\ last'.out = "fulfilled"
            /\ "Error loading tickets" \in Raised(last')]_vars

C4_Witness ==
  /\ last.op = "load" /\ ~last.ok /\ last.out = "fulfilled"
  /\ "Error loading tickets" \in Raised(last)
  /\ earlier.op = "load" /\ earlier.ok
  /\ tickets # <<>> /\ tickets = ReplaceAll(earlier.data)
  /\ error # Null /\ ~loading

\* C5: in every quiescent state the local collection holds exactly the
\* tickets the gateway holds, unless the last operation that touched the
\* collection surfaced a failure (error state or failure notice).
C5_NoSilentDivergence ==
  (Quiescent /\ error = Null /\ (last.op # "none" => FailureNoticeFree(last)))
    => IdSet(tickets) = IdSet(remote)


\* C6: ticket ids are unique in the local collection after any interleaving
\* of create, update, delete, load and notification-triggered reloads.
C6_UniqueIds == Cardinality(IdSet(tickets)) = Len(tickets)

\* C7: when several load calls overlap, the one whose fetch completes last
\* determines the collection: once nothing is in flight and the call that
\* settled last is a successful load, the collection is exactly that load's
\* result, whatever order the loads were started in.
C7_LastCompletedLoadWins ==
  (InFlight = {} /\ last.op = "load" /\ last.ok)
    => tickets = [i \in 1..Len(last.data) |-> transformLoad(last.data[i])]

\* two overlapping loads with different results; the one started first settled last
C7_Witness ==
  /\ InFlight = {}
  /\ last.op = "load" /\ last.ok
  /\ earlier.op = "load" /\ earlier.ok
  /\ earlier.seq > last.seq
  /\ Ids(earlier.data) # Ids(last.data)
  /\ Ids(tickets) = Ids(last.data)

\* of two loads that have both settled, the most recently issued one shows
LatestIssuedLoadWins ==
  (InFlight = {} /\ last.op = "load" /\ last.ok /\ earlier.op = "load" /\ earlier.ok)
    => Ids(tickets) = Ids(IF earlier.seq > last.seq THEN earlier.data ELSE last.data)

\* of two loads that have both settled, the one that settled last shows
LastCompletedLoadShows ==
  (InFlight = {} /\ last.op = "load" /\ last.ok /\ earlier.op = "load" /\ earlier.ok)
    => Ids(tickets) = Ids(last.data)

\* issuing a load, and the gateway serving one, leave the collection as it is
LoadInFlightKeepsCollection ==
  (\/ Len(calls') > Len(calls) /\ calls'[Len(calls')].op = "load"
   \/ \E c \in 1..Len(calls) :
        calls[c].op = "load" /\ calls[c].pc = "sent" /\ calls'[c].pc = "answered")
    => tickets' = tickets

\* C8 (as claimed): concurrent load calls are coalesced to the latest: when
\* several load calls overlap, once all have completed the collection
\* reflects the result of the most recently issued load, not of an
\* earlier-issued one; and while a load is in flight, reads still see the
\* previous collection unchanged.
C8_CoalescedToLatest ==
  []LatestIssuedLoadWins /\ [][LoadInFlightKeepsCollection]_vars

\* C8 (amended): when several load calls overlap, once all have completed the
\* collection reflects the result of the load that completed last, also when
\* a load issued after it completed before it; and while a load is in flight,
\* reads still see the previous collection unchanged.
C8_LastCompletedWinsReadsUnblocked ==
  []LastCompletedLoadShows /\ [][LoadInFlightKeepsCollection]_vars

\* a load is in flight and the collection still shows what was loaded before
C8_Witness ==
  /\ \E c \in InFlight : calls[c].op = "load" /\ calls[c].pc = "answered"
                         /\ calls[c].ok /\ Ids(calls[c].data) # Ids(tickets)
  /\ last.op = "load" /\ last.ok
  /\ tickets # <<>> /\ Ids(tickets) = Ids(last.data)

\* C9: a successful load replaces the local collection wholesale with exactly
\* the sequence the gateway returned (same ids, same order, every record
\* showing the gateway's record, nothing kept from before); so a load that
\* returns what the collection already shows from a load leaves it as it is.
C9_LoadReplacesWholesale ==
  [][\A c \in 1..Len(calls) :
       (Continues(c, "load") /\ calls[c].ok)
         => /\ Ids(tickets') = Ids(calls[c].data)
            /\ \A i \in 1..Len(tickets') : Corresponds(tickets'[i], calls[c].data[i])
            /\ (last.op = "load" /\ last.ok /\ last.data = calls[c].data
                  /\ tickets = [i \in 1..Len(last.data) |-> transformLoad(last.data[i])])
                 => tickets' = tickets ]_vars

\* the collection held a record the later fetch did not return
C9_Witness ==
  /\ last.op = "load" /\ last.ok
  /\ earlier.op = "load" /\ earlier.ok
  /\ earlier.seq < last.seq
  /\ ~(IdSet(earlier.data) \subseteq IdSet(last.data))
  /\ Ids(tickets) = Ids(last.data)

\* C10: a successful create puts the record returned by the gateway at the
\* head of the local collection and leaves every previous record present in
\* its previous relative order, so the length grows by exactly one.
C10_CreatePrepends ==
  [][\A c \in 1..Len(calls) :
       (Continues(c, "create") /\ calls[c].ok)
         => /\ Len(tickets') = Len(tickets) + 1
            /\ Corresponds(tickets'[1], calls[c].data[1])
            /\ Tail(tickets') = tickets ]_vars

C10_Witness ==
  /\ last.op = "create" /\ last.ok /\ last.out = "fulfilled"
  /\ Len(tickets) = 2
  /\ tickets[1].id = last.data[1].id
  /\ tickets[2].id # tickets[1].id

\* C11: a successful update replaces the local record that has the ticket's id
\* by the record the gateway returned and changes nothing else: the length of
\* the collection, the order of its ids and every other record stay as they
\* were; when no local record has that id the collection is unchanged.
C11_UpdateReplacesInPlace ==
  [][\A c \in 1..Len(calls) :
       (Continues(c, "update") /\ calls[c].ok)
         => /\ Len(tickets') = Len(tickets)
            /\ Ids(tickets') = Ids(tickets)
            /\ \A i \in 1..Len(tickets) :
                 IF tickets[i].id = calls[c].tid
                   THEN Corresponds(tickets'[i], calls[c].data[1])
                   ELSE tickets'[i] = tickets[i]
            /\ (calls[c].tid \notin IdSet(tickets) => tickets' = tickets) ]_vars

\* a successful update has replaced the second of two records by a record that
\* differs from the one it replaced
C11_Witness ==
  /\ last.op = "update" /\ last.ok
  /\ Len(tickets) = 2
  /\ tickets[2].id = last.tid
  /\ Corresponds(tickets[2], last.data[1])
  /\ tickets[2].status = "resolved"
  /\ tickets[1].id # last.tid

\* a step in which a caller invokes an operation of the store, and the call
Invoked == Len(calls') = Len(calls) + 1
InvokedCall == IF calls'[Len(calls')] = Settled THEN last' ELSE calls'[Len(calls')]
\* the gateway calls that are out
GatewayCalls == {c \in 1..Len(calls) : calls[c].pc = "sent"}

\* C12: create, update, assign, updateTicketStatus, delete, addComment and
\* addNote invoked while no user is authenticated reject at once with the
\* not-authenticated error, issue no gateway call and leave the collection
\* unchanged.
C12_WritesNeedAUser ==
  [][(Invoked /\ user = NoUser /\ InvokedCall.op \in WriteOps)
       => /\ calls'[Len(calls')] = Settled
          /\ last'.seq = Len(calls')
          /\ last'.out = "rejected"
          /\ last'.err = "User not authenticated"
          /\ GatewayCalls' = GatewayCalls
          /\ remote' = remote
          /\ tickets' = tickets ]_vars

\* with nobody signed in, an assignTicket and, before it, a deleteTicket have
\* been rejected
C12_Witness ==
  /\ user = NoUser
  /\ last.api = "assignTicket" /\ last.out = "rejected"
  /\ last.err = "User not authenticated"
  /\ earlier.api = "delete" /\ earlier.out = "rejected"
  /\ earlier.err = "User not authenticated"

\* C13: load, getActivities and getMedia invoked while no user is authenticated
\* issue no gateway call.
C13_ReadsNeedAUser ==
  [][(Invoked /\ user = NoUser /\ InvokedCall.op \in {"load", "activities", "media"})
       => GatewayCalls' = GatewayCalls ]_vars

\* the part of C13 that loadTickets keeps: a load invoked with no user issues no
\* gateway call and changes nothing
C13_LoadNeedsAUser ==
  [][(Invoked /\ user = NoUser /\ InvokedCall.op = "load")
       => /\ GatewayCalls' = GatewayCalls
          /\ last'.out = "fulfilled"
          /\ <<tickets, loading, error>>' = <<tickets, loading, error>> ]_vars

\* C14: a successful assign(ticketId, null) that follows a successful
\* assign(ticketId, e) leaves the local record with assignedTo empty, status
\* open and assignedAt empty.
C14_UnassignClears ==
  [][\A c \in 1..Len(calls) :
       ( /\ Continues(c, "update") /\ calls[c].ok
         /\ calls[c].api = "assignTicket" /\ ~Truthy(calls[c].updates.assignedTo)
         /\ last.api = "assignTicket" /\ last.ok /\ last.tid = calls[c].tid
         /\ Truthy(last.updates.assignedTo) )
       => \A i \in 1..Len(tickets') :
            tickets'[i].id = calls[c].tid
              => /\ ~Truthy(tickets'[i].assignedTo)
                 /\ tickets'[i].status = "open"
                 /\ ~TruthyT(tickets'[i].assignedAt) ]_vars

\* C15: assign(ticketId, e) with e non-null sends one update that carries
\* assignedTo = e, status = assigned and assignedAt = the current time; when it
\* succeeds the local record has assignedTo = e, status = assigned and a
\* non-empty assignedAt.
C15_AssignStamps ==
  [][/\ \A ticketId \in LifecycleIds, e \in AssigneeInputs \ {Null} :
          AssignTicket(ticketId, e)
            => /\ GatewayCalls' = GatewayCalls \cup {Len(calls')}
               /\ calls'[Len(calls')].op = "update"
               /\ calls'[Len(calls')].tid = ticketId
               /\ calls'[Len(calls')].sent
                    = [NoFields EXCEPT !.assignedTo = e, !.status = "assigned",
                                       !.assignedAt = ISO(now)]
     /\ \A c \in 1..Len(calls) :
          ( /\ Continues(c, "update") /\ calls[c].ok
            /\ calls[c].api = "assignTicket" /\ Truthy(calls[c].updates.assignedTo) )
          => \A i \in 1..Len(tickets') :
               tickets'[i].id = calls[c].tid
                 => /\ tickets'[i].assignedTo = calls[c].updates.assignedTo
                    /\ tickets'[i].status = "assigned"
                    /\ TruthyT(tickets'[i].assignedAt)
                    /\ tickets'[i].assignedAt = NewDate(calls[c].sent.assignedAt) ]_vars

\* a successful assignment of ticket 1 to eng1 shows in the collection
C15_Witness ==
  /\ last.api = "assignTicket" /\ last.ok /\ last.out = "fulfilled"
  /\ last.sent.assignedTo = "eng1" /\ last.sent.status = "assigned"
  /\ \E i \in 1..Len(tickets) :
       /\ tickets[i].id = last.tid
       /\ tickets[i].assignedTo = "eng1"
       /\ tickets[i].status = "assigned"
       /\ tickets[i].assignedAt = NewDate(last.sent.assignedAt)

\* every local ticket in status resolved has a resolvedAt
ResolvedHasResolvedAt ==
  \A i \in 1..Len(tickets) :
    tickets[i].status = "resolved" => TruthyT(tickets[i].resolvedAt)

\* C16: an update to status resolved that gives no resolvedAt sends a
\* resolvedAt that is not earlier than the updatedAt the local record has when
\* the update is invoked; when it succeeds that resolvedAt is the local
\* record's; and no local ticket is ever in status resolved without resolvedAt.
C16_ResolvedIsStamped ==
  /\ []ResolvedHasResolvedAt
  /\ [][/\ (Invoked /\ InvokedCall.op = "update" /\ InvokedCall.updates.status = "resolved"
             /\ ~TruthyT(InvokedCall.updates.resolvedAt))
            => /\ TruthyT(InvokedCall.sent.resolvedAt)
               /\ \A i \in 1..Len(tickets) :
                    tickets[i].id = InvokedCall.tid
                      => Instant(InvokedCall.sent.resolvedAt) >= Instant(tickets[i].updatedAt)
        /\ \A c \in 1..Len(calls) :
             ( /\ Continues(c, "update") /\ calls[c].ok
               /\ calls[c].updates.status = "resolved"
               /\ ~TruthyT(calls[c].updates.resolvedAt) )
             => \A i \in 1..Len(tickets') :
                  tickets'[i].id = calls[c].tid
                    => /\ tickets'[i].status = "resolved"
                       /\ tickets'[i].resolvedAt = NewDate(calls[c].sent.resolvedAt) ]_vars

\* a ticket that was updated before has been set to resolved: its resolvedAt
\* is later than the updatedAt it had
C16_Witness ==
  /\ last.api = "updateTicketStatus" /\ last.ok /\ last.updates.status = "resolved"
  /\ earlier.op = "update" /\ earlier.ok /\ earlier.tid = last.tid
  /\ \E i \in 1..Len(tickets) :
       /\ tickets[i].id = last.tid
       /\ tickets[i].status = "resolved"
       /\ tickets[i].resolvedAt = NewDate(last.sent.resolvedAt)
       /\ Instant(tickets[i].resolvedAt) > Instant(earlier.data[1].updatedAt)

\* the timestamp that goes with a status
StampOf == [assigned |-> "assignedAt", resolved |-> "resolvedAt", verified |-> "verifiedAt"]
\* what the store sends for a timestamp the caller gave or did not give
AsGiven(v) == IF TruthyT(v) THEN toISOString(v) ELSE v

\* C17: an update that requests status assigned, resolved or verified without
\* the matching timestamp sends that timestamp set to the current time (and
\* verifiedBy set to the current user for verified); with a timestamp given by
\* the caller it sends the given value; no other timestamp is added, and an
\* update that requests none of these statuses adds no timestamp.
C17_StampsByStatus ==
  [][(Invoked /\ InvokedCall.op = "update" /\ user # NoUser)
       => LET u == InvokedCall.updates
              d == InvokedCall.sent
          IN  /\ \A s \in DOMAIN StampOf :
                   LET f == StampOf[s] IN
                     IF u.status = s
                       THEN d[f] = IF TruthyT(u[f]) THEN toISOString(u[f]) ELSE ISO(now)
                       ELSE d[f] = AsGiven(u[f])
              /\ d.verifiedBy = IF u.status = "verified" /\ ~TruthyT(u.verifiedAt)
                                  THEN user.id ELSE u.verifiedBy
              /\ d.status = u.status /\ d.assignedTo = u.assignedTo
              /\ d.dueDate = AsGiven(u.dueDate) ]_vars

\* an update to verified that gives an assignedAt but no verifiedAt is out: it
\* carries the given assignedAt, the current time as verifiedAt and the user
C17_Witness ==
  \E c \in GatewayCalls :
    /\ calls[c].op = "update"
    /\ calls[c].updates.status = "verified"
    /\ calls[c].updates.verifiedAt = UndefT
    /\ calls[c].updates.assignedAt = Date(0)
    /\ calls[c].sent.verifiedAt = ISO(now)
    /\ calls[c].sent.verifiedBy = user.id
    /\ calls[c].sent.assignedAt = ISO(0)
    /\ calls[c].sent.resolvedAt = UndefT

\* C18: every ticket with assignedTo set has a status among assigned,
\* in_progress, resolved, verified and closed, in every state reached through
\* update, assign and updateTicketStatus.
C18_AssignedHasStatus ==
  \A i \in 1..Len(tickets) :
    Truthy(tickets[i].assignedTo)
      => tickets[i].status \in {"assigned", "in_progress", "resolved", "verified", "closed"}

\* C19: a ticket has verifiedAt or verifiedBy set only while its status is
\* verified.
C19_VerifiedOnlyWhileVerified ==
  \A i \in 1..Len(tickets) :
    (TruthyT(tickets[i].verifiedAt) \/ Truthy(tickets[i].verifiedBy))
      => tickets[i].status = "verified"

\* the lifecycle order of the statuses
LifecycleOrder == <<"open", "assigned", "in_progress", "resolved", "verified", "closed">>
Rank(status) == CHOOSE n \in 1..Len(LifecycleOrder) : LifecycleOrder[n] = status

\* C20: the status of a ticket never moves backwards in the lifecycle order,
\* except that it returns to open when the ticket's assignment is removed (the
\* ticket had an assignee and has none, or an assign to nobody is applied).
C20_StatusMonotonic ==
  [][\A i \in 1..Len(tickets), j \in 1..Len(tickets') :
       tickets[i].id = tickets'[j].id
         => \/ Rank(tickets'[j].status) >= Rank(tickets[i].status)
            \/ /\ tickets'[j].status = "open"
               /\ ~Truthy(tickets'[j].assignedTo)
               /\ \/ Truthy(tickets[i].assignedTo)
                  \/ \E c \in 1..Len(calls) :
                       /\ Continues(c, "update") /\ calls[c].tid = tickets[i].id
                       /\ calls[c].api = "assignTicket"
                       /\ ~Truthy(calls[c].updates.assignedTo) ]_vars

\* call c is waiting for a dispatcher call, and in this step that call throws
DispatcherThrows(c) ==
  /\ c \in 1..Len(calls) /\ calls[c].pc = "notify"
  /\ calls'[c] = Settled /\ last'.seq = c /\ last'.dfail

\* C21: a Notification Dispatcher call that fails never fails or undoes the
\* mutation: the create or update fulfils with the confirmed record, the
\* collection (with that record) and the remote store stay as they are, and
\* the confirmation notice is raised.
C21_DispatcherFailureIsSwallowed ==
  [][\A c \in 1..Len(calls) :
       DispatcherThrows(c)
         => /\ last'.out = "fulfilled"
            /\ Len(last'.ret) = 1
            /\ Corresponds(last'.ret[1], calls[c].data[1])
            /\ Confirmation(calls[c].op) \in Raised(last')
            /\ FailureNoticeFree(last')
            /\ tickets' = tickets
            /\ remote' = remote ]_vars

\* notifyTicketCreated threw: the create fulfilled and its record heads the collection
C21_Witness ==
  /\ last.op = "create" /\ last.dfail /\ last.out = "fulfilled"
  /\ last.disp = <<"created">>
  /\ "Ticket created" \in Raised(last)
  /\ tickets # <<>> /\ tickets[1] = last.ret[1]

\* C22: dispatcher calls are fire-and-forget: a create or update whose gateway
\* call has succeeded eventually fulfils and raises its confirmation, whether
\* or not the dispatcher call it makes ever completes.
C22_FulfilsWithoutDispatcher ==
  \A c \in 1..(1 + MaxUpdates) :
    (c \in 1..Len(calls) /\ calls[c].op \in {"create", "update"}
       /\ calls[c].pc = "answered" /\ calls[c].ok)
      ~> (last.seq = c /\ last.out = "fulfilled"
            /\ \E op \in {"create", "update"} :
                 last.op = op /\ Confirmation(op) \in Raised(last))

\* This step makes call c's next dispatcher call, of the given kind.
NotifiesHere(c, kind) ==
  /\ c \in 1..Len(calls) /\ calls[c].pc \in {"answered", "notify"}
  /\ calls'[c].pc = "notify"
  /\ calls'[c].disp = Append(calls[c].disp, kind)

\* The local record of ticket id (a sequence of none or one record).
LocalRecord(id) == SelectSeq(tickets, LAMBDA t : t.id = id)

\* This step continues update c after the gateway confirmed it.
UpdateSucceedsHere(c) ==
  /\ Answered(c, "update") /\ calls[c].ok
  /\ calls'[c].pc # "answered"

\* C23: the dispatcher's notifyResolved is called exactly for the successful
\* updates that move a ticket into resolved from a different status: once then,
\* and not for an update of a ticket that is resolved already, nor for a failed
\* update. (The status before is the one of the ticket's local record.)
C23_ResolvedNotifiedOnTransition ==
  [][\A c \in 1..Len(calls) :
       LocalRecord(calls[c].tid) # <<>>
         => (NotifiesHere(c, "resolved")
               <=> /\ UpdateSucceedsHere(c)
                   /\ calls[c].data[1].status = "resolved"
                   /\ LocalRecord(calls[c].tid)[1].status # "resolved")]_vars

\* the dispatcher calls a call has made
Dispatched(call) == {call.disp[i] : i \in 1..Len(call.disp)}

\* C24: an update or assign that has settled has called the dispatcher's
\* notifyAssigned exactly when it succeeded and set a non-null assignee who is
\* not the ticket's creator: not when the assignee is the creator, nor when the
\* assignment is cleared, nor when the update failed.
C24_AssignedNotifiedUnlessCreator ==
  last.op = "update"
    => ("assigned" \in Dispatched(last)
          <=> /\ last.out = "fulfilled"
              /\ Truthy(last.updates.assignedTo)
              /\ last.updates.assignedTo # last.ret[1].createdBy)

\* This step continues create c after the gateway's answer.
CreateContinuesHere(c) == Answered(c, "create") /\ calls'[c].pc # "answered"

\* C25: every successful create calls the dispatcher's notifyCreated exactly
\* once, with the record the gateway confirmed, and that record is in the local
\* collection when the call is made; a failed create makes no dispatcher call.
C25_CreatedNotifiedOnce ==
  /\ [](\A c \in 1..Len(calls) :
          calls[c].op = "create" => calls[c].disp \in {<<>>, <<"created">>})
  /\ [](last.op = "create"
          => last.disp = (IF last.ok THEN <<"created">> ELSE <<>>))
  /\ [][\A c \in 1..Len(calls) :
          CreateContinuesHere(c)
            => IF calls[c].ok
                 THEN /\ NotifiesHere(c, "created")
                      /\ calls'[c].ret = <<transformCreate(calls[c].data[1])>>
                      /\ tickets' # <<>> /\ tickets'[1] = calls'[c].ret[1]
                      /\ Corresponds(tickets'[1], calls[c].data[1])
                 ELSE /\ calls'[c] = Settled
                      /\ last'.seq = c /\ last'.disp = <<>>
                      /\ \A k \in {"created", "resolved", "assigned"} : ~NotifiesHere(c, k)]_vars

C25_Witness ==
  /\ last.op = "create" /\ last.out = "fulfilled" /\ ~last.dfail
  /\ last.disp = <<"created">>
  /\ \E i \in 1..Len(tickets) : tickets[i] = last.ret[1]
  /\ earlier.op = "create" /\ earlier.out = "rejected" /\ earlier.disp = <<>>

\* This step delivers a remote change notification to the subscription.
Delivered ==
  /\ subscription # NoSubscription /\ pending' = pending - 1
  /\ user' = user /\ profile' = profile /\ subscription' = subscription

\* C26: every remote change notification delivered while the store is
\* subscribed for an authenticated user whose profile is loaded starts a full
\* load, one gateway fetch of the whole collection, and patches no record.
C26_ChangeReloadsInFull ==
  [][(Delivered /\ user # NoUser /\ profile # NoProfile)
       => /\ Len(calls') = Len(calls) + 1
          /\ calls'[Len(calls')].op = "load"
          /\ calls'[Len(calls')].pc = "sent"
          /\ tickets' = tickets]_vars

RemarkAndReadOps == {"comment", "note", "activities", "media"}

\* C27: addComment, addNote, getTicketActivities and getTicketMedia leave the
\* local collection as it is, when they are called and when they continue after
\* the gateway's answer, whether that answer is a success or a failure.
C27_RemarksAndReadsKeepCollection ==
  [][\A op \in RemarkAndReadOps :
       (\/ Invoked /\ InvokedCall.op = op
        \/ \E c \in 1..Len(calls) : Continues(c, op))
         => tickets' = tickets]_vars

C27_Witness ==
  /\ tickets # <<>>
  /\ last.op = "media" /\ last.out = "fulfilled"
  /\ "Failed to load media" \in Raised(last)

ReadOps == {"activities", "media"}

\* what a read returned is the gateway's records, one for one and in order,
\* each with its creation time as a date
ReturnsRecords(ret, data) ==
  /\ Len(ret) = Len(data)
  /\ \A i \in 1..Len(data) :
       /\ ret[i].id = data[i].id
       /\ ret[i].ticketId = data[i].ticketId
       /\ ret[i].createdAt = Date(Instant(data[i].createdAt))

\* C28: getTicketActivities and getTicketMedia never reject: when the gateway
\* call failed they fulfil with the empty sequence, and when it succeeded with
\* one element per record of the gateway, in the gateway's order.
C28_ReadsNeverReject ==
  /\ [](last.op \in ReadOps
          => /\ last.out = "fulfilled"
             /\ IF last.ok THEN ReturnsRecords(last.ret, last.data)
                            ELSE last.ret = <<>>)
  /\ [][\A op \in ReadOps : \A c \in 1..Len(calls) :
          Continues(c, op)
            => calls'[c] = Settled /\ last'.seq = c /\ last'.out = "fulfilled"]_vars

C28_Witness ==
  /\ earlier.op = "media" /\ earlier.ok /\ Len(earlier.ret) = 2
  /\ earlier.ret[1].id = 2 /\ earlier.ret[2].id = 1
  /\ last.op = "activities" /\ ~last.ok
  /\ last.out = "fulfilled" /\ last.ret = <<>>

\* the elements of a sequence
Elements(s) == {s[i] : i \in 1..Len(s)}

\* a ticket the user neither created nor is assigned to
NotOwn(t) == t.createdBy # idOf(user) /\ t.assignedTo # idOf(user)

\* the collection without the tickets that are not the user's own
OwnTickets == SelectSeq(tickets, LAMBDA t : ~NotOwn(t))

SeesAll == roleOf(profile) \in {"admin", "supervisor"}

\* C29: for every collection and filter setting, an admin or supervisor sees
\* the full collection; for every other role, and with no profile, a ticket
\* that the user neither created nor is assigned to is in no listed ticket and
\* in no count: list and counts are those of the collection without it.
C29_VisibilityByRole ==
  IF SeesAll
    THEN /\ counts.all = Len(tickets)
         /\ userTickets(tickets, user, profile) = tickets
         /\ allUserTickets(tickets, user, profile) = tickets
         /\ (searchTerm = <<>> /\ statusFilter = "all" /\ priorityFilter = "all"
               /\ assignedFilter = "all") => filteredTickets = tickets
    ELSE /\ \A i \in 1..Len(tickets) :
              NotOwn(tickets[i]) => tickets[i] \notin Elements(filteredTickets)
         /\ counts.all = Len(OwnTickets)
         /\ counts = getTicketCounts(OwnTickets, user, profile, now)
         /\ filteredTickets = getFilteredTickets(OwnTickets, user, profile, searchTerm,
                                                 statusFilter, priorityFilter, assignedFilter)

C29_Witness ==
  /\ roleOf(profile) = "field_engineer"
  /\ Len(tickets) = 2 /\ NotOwn(tickets[1]) /\ ~NotOwn(tickets[2])
  /\ filteredTickets = <<tickets[2]>>
  /\ counts.all = 1

\* term occurs in field when the case of the letters is ignored
ContainedIgnoringCase(term, field) ==
  \E k \in 0..(Len(field) - Len(term)) :
    \A i \in 1..Len(term) : toLowerCaseChar(field[k + i]) = toLowerCaseChar(term[i])

\* the four conditions of the filter, on the page's current settings
Satisfies(t) ==
  /\ \/ searchTerm = <<>>
     \/ ContainedIgnoringCase(searchTerm, t.title)
     \/ ContainedIgnoringCase(searchTerm, t.description)
     \/ ContainedIgnoringCase(searchTerm, t.location)
  /\ statusFilter = "all" \/ t.status = statusFilter
  /\ priorityFilter = "all" \/ t.priority = priorityFilter
  /\ \/ assignedFilter = "all"
     \/ assignedFilter = "unassigned" /\ t.assignedTo \in {Null, Undef, ""}
     \/ t.assignedTo = assignedFilter

\* C30: the filtered list holds exactly the visible tickets that satisfy all
\* four conditions (search term, status, priority, assignment), in the
\* collection's order.
C30_FilteredExactly ==
  filteredTickets =
    SelectSeq(IF SeesAll THEN tickets ELSE OwnTickets, Satisfies)

C30_Witness ==
  /\ searchTerm = <<"A", "B">> /\ statusFilter = "open"
  /\ priorityFilter = "high" /\ assignedFilter = "unassigned"
  /\ SeesAll
  /\ Len(tickets) = 2 /\ tickets[1].id = 6 /\ tickets[2].id = 1
  /\ filteredTickets = <<tickets[2]>>

\* the visibility-scoped set
VisibleTickets == IF SeesAll THEN tickets ELSE OwnTickets

\* the positions of the visible tickets
VisibleAt == 1..Len(VisibleTickets)

\* This step changes the search term or a filter and nothing the counts read.
FiltersChange ==
  /\ <<searchTerm, statusFilter, priorityFilter, assignedFilter>>'
       # <<searchTerm, statusFilter, priorityFilter, assignedFilter>>
  /\ UNCHANGED <<tickets, user, profile, now>>

\* C31: the counts are those of the visibility-scoped set: all is its size,
\* assigned its tickets assigned to the current user, created its tickets
\* created by the current user, unassigned its tickets with no assignee for
\* admin and supervisor and 0 for every other role; a change of the search
\* term or of the status, priority or assignment filter leaves them as they are.
C31_CountsOverVisibleSet ==
  /\ [](/\ counts.all = Len(VisibleTickets)
        /\ counts.assigned
             = Cardinality({i \in VisibleAt : VisibleTickets[i].assignedTo = idOf(user)})
        /\ counts.created
             = Cardinality({i \in VisibleAt : VisibleTickets[i].createdBy = idOf(user)})
        /\ counts.unassigned
             = IF SeesAll
                 THEN Cardinality({i \in VisibleAt :
                                    VisibleTickets[i].assignedTo \in {Null, Undef, ""}})
                 ELSE 0)
  /\ [][FiltersChange => counts' = counts]_vars

C31_Witness ==
  /\ roleOf(profile) = "field_engineer"
  /\ statusFilter = "open" /\ searchTerm = <<"a">>
  /\ counts.all = 2 /\ counts.assigned = 1 /\ counts.created = 1
  /\ counts.unassigned = 0
  /\ \E i \in VisibleAt : VisibleTickets[i].assignedTo = Null
  /\ Len(filteredTickets) = 1

\* a ticket is overdue now: its due date is set and past, and it is not
\* resolved, verified or closed
IsOverdue(t) ==
  /\ t.dueDate \notin {NullT, UndefT}
  /\ Instant(t.dueDate) < now
  /\ t.status # "resolved" /\ t.status # "verified" /\ t.status # "closed"

\* C32: a ticket counts as overdue exactly when its due date is set and earlier
\* than the evaluation time and its status is not resolved, verified or closed:
\* the page's overdue count is the number of such tickets in the visible set,
\* and the store's getOverdueTickets returns exactly such tickets of the
\* collection.
C32_OverdueByDefinition ==
  /\ [](counts.overdue = Cardinality({i \in VisibleAt : IsOverdue(VisibleTickets[i])}))
  /\ [][(Invoked /\ InvokedCall.op = "overdue")
          => InvokedCall.ret = SelectSeq(tickets, IsOverdue)]_vars

C32_Witness ==
  /\ last.op = "overdue" /\ Len(last.ret) = 1
  /\ Len(tickets) = 2 /\ last.ret[1] = tickets[2]
  /\ tickets[1].dueDate = Date(0) /\ tickets[1].status = "closed"
  /\ ~SeesAll /\ counts.overdue = 0

\* the place of a ticket in a list that holds it once
PlaceIn(list, t) == CHOOSE k \in 1..Len(list) : list[k] = t

\* the sorted list holds the tickets of the filtered list, each once
SortedIsPermutation ==
  /\ Len(sortedTickets) = Len(filteredTickets)
  /\ Elements(sortedTickets) = Elements(filteredTickets)

\* the rank of a priority; one that is unset or unknown ranks 0
PriorityRank(t) ==
  IF t.priority = "critical" THEN 4
  ELSE IF t.priority = "high" THEN 3
  ELSE IF t.priority = "medium" THEN 2
  ELSE IF t.priority = "low" THEN 1
  ELSE 0

\* C33: sorted by priority, the list is in descending rank (critical 4, high 3,
\* medium 2, low 1, unset or unknown 0 and so last), and tickets of equal rank
\* are in the order they have in the filtered list.
C33_SortByPriority ==
  sortBy = "priority"
    => /\ SortedIsPermutation
       /\ \A i, j \in 1..Len(sortedTickets) :
            i < j =>
              /\ PriorityRank(sortedTickets[i]) >= PriorityRank(sortedTickets[j])
              /\ PriorityRank(sortedTickets[i]) = PriorityRank(sortedTickets[j])
                   => PlaceIn(filteredTickets, sortedTickets[i])
                        < PlaceIn(filteredTickets, sortedTickets[j])

C33_Witness ==
  /\ sortBy = "priority"
  /\ Len(filteredTickets) = 3
  /\ filteredTickets[1].priority = Undef
  /\ filteredTickets[2].id = 4 /\ filteredTickets[3].id = 3
  /\ sortedTickets = <<filteredTickets[2], filteredTickets[3], filteredTickets[1]>>

HasDueDate(t) == t.dueDate \notin {NullT, UndefT}

\* C34: sorted by due date, every ticket with a due date is before every
\* ticket without one, the tickets with a due date are in ascending order of
\* it, and the tickets without one are in the order they have in the filtered
\* list.
C34_SortByDueDate ==
  sortBy = "due_date"
    => /\ SortedIsPermutation
       /\ \A i, j \in 1..Len(sortedTickets) :
            i < j =>
              LET a == sortedTickets[i]
                  b == sortedTickets[j]
              IN  /\ HasDueDate(b) => HasDueDate(a)
                  /\ (HasDueDate(a) /\ HasDueDate(b))
                       => Instant(a.dueDate) <= Instant(b.dueDate)
                  /\ (~HasDueDate(a) /\ ~HasDueDate(b))
                       => PlaceIn(filteredTickets, a) < PlaceIn(filteredTickets, b)

C34_Witness ==
  /\ sortBy = "due_date"
  /\ Len(filteredTickets) = 3
  /\ filteredTickets[1].id = 4 /\ filteredTickets[2].id = 2 /\ filteredTickets[3].id = 1
  /\ sortedTickets = <<filteredTickets[2], filteredTickets[1], filteredTickets[3]>>

\* the orders in which a collection can hold the tickets it holds
Orders(ts) ==
  {o \in [1..Len(ts) -> Elements(ts)] : \A i, j \in 1..Len(ts) : o[i] = o[j] => i = j}

\* what the page lists and counts when the collection is ts
ListedOf(ts) ==
  sort(getFilteredTickets(ts, user, profile, searchTerm, statusFilter, priorityFilter,
                          assignedFilter), sortBy)

\* C35 (as claimed): for a fixed set of tickets, user, role, filter and sort
\* parameters and evaluation time, the listed sequence and the counts are the
\* same for every order in which the collection holds those tickets.
C35_OrderIndependent ==
  \A o \in Orders(tickets) :
    /\ ListedOf(o) = sortedTickets
    /\ getTicketCounts(o, user, profile, now) = counts

\* C35 (amended): the counts are the same for every order of the collection,
\* and so is the listed sequence but for tickets that tie under the sort order:
\* the same tickets are listed, and two of them that the sort order tells apart
\* are in the same order whatever the collection's order.
C35_OrderIndependentUpToTies ==
  \A o \in Orders(tickets) :
    /\ getTicketCounts(o, user, profile, now) = counts
    /\ Len(ListedOf(o)) = Len(sortedTickets)
    /\ Elements(ListedOf(o)) = Elements(sortedTickets)
    /\ \A i, j \in 1..Len(sortedTickets) :
         (i < j /\ compare(sortedTickets[i], sortedTickets[j], sortBy) # 0)
           => PlaceIn(ListedOf(o), sortedTickets[i]) < PlaceIn(ListedOf(o), sortedTickets[j])

C35_Witness ==
  /\ sortBy = "created"
  /\ Len(tickets) = 3
  /\ tickets[1].id = 1 /\ tickets[2].id = 2 /\ tickets[3].id = 4
  /\ sortedTickets = <<tickets[3], tickets[2], tickets[1]>>
  /\ counts.all = 3

\* This step is a render of the page for the collection it had: the search
\* term, a filter or the sort order was set.
RendersAgain ==
  <<searchTerm, statusFilter, priorityFilter, assignedFilter, sortBy>>'
    # <<searchTerm, statusFilter, priorityFilter, assignedFilter, sortBy>>

\* C36: the page never writes the store's collection: computing the visible
\* set, the filtered list, the sorted list in any of the four orders and the
\* counts leaves the collection's records and their order as they were.
C36_ViewLeavesCollection ==
  [][RendersAgain => tickets' = tickets]_vars

C36_Witness ==
  /\ sortBy = "priority"
  /\ Len(tickets) = 3
  /\ tickets[1].id = 1 /\ tickets[2].id = 3 /\ tickets[3].id = 2
  /\ sortedTickets = <<tickets[3], tickets[2], tickets[1]>>
  /\ filteredTickets = tickets

\* C37: whenever no user is authenticated the local collection is empty: it
\* is emptied when the session ends and stays empty, also when a load started
\* for the previous user completes after the session ended.
C37_EmptyWithoutUser ==
  user = NoUser => tickets = <<>>

\* the loads in flight
LoadsInFlight == {c \in InFlight : calls[c].op = "load"}

\* C38: the loading flag is true whenever at least one load is in flight,
\* however overlapping loads interleave (so it is false, and has become false,
\* only in states in which no load is in flight).
C38_LoadingWhileLoadInFlight ==
  LoadsInFlight # {} => loading = TRUE

\* C39: the error state reflects the load that completed last: when the load
\* that completed most recently succeeded (so no later load has failed), the
\* error state is null, however overlapping loads interleave.
C39_ErrorOfLastLoad ==
  (last.op = "load" /\ last.pc = "done" /\ last.ok) => error = Null

\* the channels that are open
OpenChannels == {k \in 1..Len(channels) : channels[k].open}

====
